---- MODULE Spec2Model ----
(***************************************************************************)
(* Model of the keep-note-converter formatting engine                      *)
(* (src/src/lib/keepFormatter.ts).                                         *)
(*                                                                         *)
(* Strings are sequences of tokens.  A token is one character of text, one *)
(* character reference (&nbsp; &amp; ...) or one tag, so that every        *)
(* regular expression of the source reads the same on tokens as on         *)
(* characters: text never holds a raw '<' or '>' (the serializer escapes   *)
(* them, and the editor's innerHTML escapes them in the input).            *)
(***************************************************************************)
EXTENDS Integers, Sequences, FiniteSets, TLC

\* ------------------------------------------------------------------ tokens

NBSP == "U+00A0"

Chr(c) == [k |-> "chr", v |-> c, a |-> <<>>]
Ent(n) == [k |-> "ent", v |-> n, a |-> <<>>]
OpenA(t, attrs) == [k |-> "open", v |-> t, a |-> attrs]
Open(t) == OpenA(t, <<>>)
Close(t) == [k |-> "close", v |-> t, a |-> <<>>]
\* "<br />": a start tag written with the self-closing slash
SelfClose(t) == [k |-> "selfclose", v |-> t, a |-> <<>>]
\* "<!--c-->"
Comment(c) == [k |-> "comment", v |-> c, a |-> <<>>]

\* what /<[^>]*>/ matches: a tag or a comment
IsTag(tok) == tok.k \in {"open", "close", "selfclose", "comment"}
IsStartTag(tok) == tok.k \in {"open", "selfclose"}

\* JavaScript's \s and the set String.prototype.trim removes
WhiteSpace == {" ", "\n", "\t", NBSP}

IsSpace(tok) == tok.k = "chr" /\ tok.v \in WhiteSpace

\* Chars("abc") is written <<"a","b","c">>; Text turns characters into tokens
Text(chars) == [i \in 1..Len(chars) |-> Chr(chars[i])]

\* the concatenation of the sequences seqs[lo..hi]
RECURSIVE FlattenRange(_, _, _)
FlattenRange(seqs, lo, hi) ==
  IF lo > hi THEN <<>>
  ELSE IF lo = hi THEN seqs[lo]
  ELSE LET mid == (lo + hi) \div 2
       IN FlattenRange(seqs, lo, mid) \o FlattenRange(seqs, mid + 1, hi)

\* Array.prototype.join("")
Flatten(seqs) == FlattenRange(seqs, 1, Len(seqs))

\* the elements s[i] with i in keep, in order
KeepWhere(s, keep) ==
  LET kept == SelectSeq([i \in 1..Len(s) |-> i], LAMBDA i : i \in keep)
  IN [i \in 1..Len(kept) |-> s[kept[i]]]

Min(S) == CHOOSE x \in S : \A y \in S : x <= y
Max(S) == CHOOSE x \in S : \A y \in S : y <= x

\* String.prototype.trim
Trim(s) ==
  LET solid == {i \in 1..Len(s) : ~IsSpace(s[i])}
  IN IF solid = {} THEN <<>> ELSE SubSeq(s, Min(solid), Max(solid))

\* String.prototype.trimStart
TrimStart(s) ==
  LET solid == {i \in 1..Len(s) : ~IsSpace(s[i])}
  IN IF solid = {} THEN <<>> ELSE SubSeq(s, Min(solid), Len(s))

\* ------------------------------------------------------------ the DOM tree

UpperOf ==
  [t \in {"div", "p", "section", "article", "header", "footer", "h1", "h2",
          "h3", "h4", "h5", "h6", "b", "strong", "i", "em", "u", "br", "ol",
          "ul", "li", "script", "style", "span", "figure", "img"} |->
     CASE t = "div" -> "DIV" [] t = "p" -> "P" [] t = "section" -> "SECTION"
       [] t = "article" -> "ARTICLE" [] t = "header" -> "HEADER"
       [] t = "footer" -> "FOOTER" [] t = "h1" -> "H1" [] t = "h2" -> "H2"
       [] t = "h3" -> "H3" [] t = "h4" -> "H4" [] t = "h5" -> "H5"
       [] t = "h6" -> "H6" [] t = "b" -> "B" [] t = "strong" -> "STRONG"
       [] t = "i" -> "I" [] t = "em" -> "EM" [] t = "u" -> "U"
       [] t = "br" -> "BR" [] t = "ol" -> "OL" [] t = "ul" -> "UL"
       [] t = "li" -> "LI" [] t = "script" -> "SCRIPT" [] t = "style" -> "STYLE"
       [] t = "span" -> "SPAN" [] t = "figure" -> "FIGURE" [] t = "img" -> "IMG"]

LowerOf(T) == CHOOSE t \in DOMAIN UpperOf : UpperOf[t] = T

TextNode(chars) == [tag |-> "#text", attrs |-> <<>>, kids |-> <<>>, text |-> chars]
Element(tag, attrs, kids) == [tag |-> tag, attrs |-> attrs, kids |-> kids, text |-> <<>>]

IsTextNode(node) == node.tag = "#text"

\* attrs is a sequence of <<name, value>> pairs, value a sequence of characters
HasAttribute(attrs, name) == \E i \in 1..Len(attrs) : attrs[i][1] = name

\* getAttribute(name), for an attribute that is present
GetAttribute(attrs, name) ==
  LET hits == {i \in 1..Len(attrs) : attrs[i][1] = name}
  IN attrs[CHOOSE i \in hits : \A j \in hits : i <= j][2]

\* ------------------------------------------- the HTML parser (tree builder)
\* The part of the HTML tree-construction algorithm ("in body" insertion
\* mode) that the tags above exercise.

HeadingTags == {"H1", "H2", "H3", "H4", "H5", "H6"}
FormattingTags == {"B", "STRONG", "I", "EM", "U"}
VoidTags == {"BR", "IMG"}
RawTextTags == {"SCRIPT", "STYLE"}
\* start tags that first close an open p element
ClosePTags == {"DIV", "P", "OL", "UL", "FIGURE", "SECTION", "ARTICLE", "HEADER", "FOOTER"}
\* the "special" category
SpecialTags == ClosePTags \cup HeadingTags \cup VoidTags \cup RawTextTags \cup {"LI", "BODY"}
ImpliedEndTags == {"LI", "P"}

EntityChar(n) ==
  CASE n = "nbsp" -> NBSP [] n = "amp" -> "&" [] n = "lt" -> "<"
    [] n = "gt" -> ">" [] n = "quot" -> "\""

\* the characters of a token, as the tokenizer's raw-text state reads them
RawChars(tok) ==
  CASE tok.k = "chr" -> <<tok.v>>
    [] tok.k = "ent" -> <<"&">> \o <<tok.v>> \o <<";">>
    [] OTHER -> <<"<", tok.v, ">">>

AppendChars(kids, chars) ==
  IF chars = <<>> THEN kids
  ELSE IF kids /= <<>> /\ IsTextNode(kids[Len(kids)])
       THEN [kids EXCEPT ![Len(kids)].text = @ \o chars]
       ELSE Append(kids, TextNode(chars))

\* a parser state: the stack of open elements (an element joins its parent's
\* children when it is popped), the list of active formatting elements and
\* the next element identity
Top(ps) == ps.stack[Len(ps.stack)]

OnStack(stack, id) == \E i \in 1..Len(stack) : stack[i].id = id
HasTag(stack, tags) == \E i \in 1..Len(stack) : stack[i].tag \in tags

AddChild(ps, node) ==
  [ps EXCEPT !.stack[Len(ps.stack)].kids = Append(@, node)]

AddChars(ps, chars) ==
  [ps EXCEPT !.stack[Len(ps.stack)].kids = AppendChars(@, chars)]

Pop(ps) ==
  LET n == Len(ps.stack)
      top == ps.stack[n]
      rest == SubSeq(ps.stack, 1, n - 1)
  IN [ps EXCEPT !.stack =
        [rest EXCEPT ![n - 1].kids = Append(@, Element(top.tag, top.attrs, top.kids))]]

\* pop until the stack has len elements left
RECURSIVE PopToLen(_, _)
PopToLen(ps, len) ==
  IF Len(ps.stack) <= len \/ Len(ps.stack) <= 1 THEN ps ELSE PopToLen(Pop(ps), len)

\* pop up to and including the nearest open element with a tag in tags
PopUntil(ps, tags) ==
  LET hits == {i \in 1..Len(ps.stack) : ps.stack[i].tag \in tags}
  IN IF hits = {} THEN ps
     ELSE PopToLen(ps, (CHOOSE i \in hits : \A j \in hits : j <= i) - 1)

RECURSIVE GenerateImpliedEndTags(_, _)
GenerateImpliedEndTags(ps, except) ==
  IF Top(ps).tag \in (ImpliedEndTags \ {except})
  THEN GenerateImpliedEndTags(Pop(ps), except)
  ELSE ps

InsertElement(ps, tag, attrs) ==
  [ps EXCEPT !.stack = Append(@, [id |-> ps.nextId, tag |-> tag, attrs |-> attrs, kids |-> <<>>]),
             !.nextId = @ + 1]

ClosePElement(ps) == PopUntil(GenerateImpliedEndTags(ps, "P"), {"P"})

ClosePIfInScope(ps) == IF HasTag(ps.stack, {"P"}) THEN ClosePElement(ps) ELSE ps

ReconstructFormatting(ps) ==
  LET afe == ps.afe
      n == Len(afe)
  IN IF n = 0 \/ OnStack(ps.stack, afe[n].id) THEN ps
     ELSE LET open == {i \in 1..n : OnStack(ps.stack, afe[i].id)}
              j == IF open = {} THEN 0 ELSE CHOOSE i \in open : \A m \in open : m <= i
          IN [ps EXCEPT
                !.stack = @ \o [i \in 1..(n - j) |->
                                  [id |-> ps.nextId + i - 1, tag |-> afe[j + i].tag,
                                   attrs |-> afe[j + i].attrs, kids |-> <<>>]],
                !.afe = [i \in 1..n |->
                           IF i > j THEN [afe[i] EXCEPT !.id = ps.nextId + (i - j) - 1]
                           ELSE afe[i]],
                !.nextId = @ + (n - j)]

RemoveAt(s, i) == SubSeq(s, 1, i - 1) \o SubSeq(s, i + 1, Len(s))
InsertAt(s, i, e) == SubSeq(s, 1, i - 1) \o <<e>> \o SubSeq(s, i, Len(s))

\* push onto the list of active formatting elements (at most three equal entries)
PushFormatting(ps, tag, attrs) ==
  LET same == {i \in 1..Len(ps.afe) : ps.afe[i].tag = tag /\ ps.afe[i].attrs = attrs}
      afe1 == IF Cardinality(same) >= 3
              THEN RemoveAt(ps.afe, CHOOSE i \in same : \A j \in same : i <= j)
              ELSE ps.afe
      q == InsertElement(ps, tag, attrs)
  IN [q EXCEPT !.afe = Append(afe1, [id |-> ps.nextId, tag |-> tag, attrs |-> attrs])]

\* start tag "li": close an li that is still open in this list
RECURSIVE CloseOpenLi(_, _)
CloseOpenLi(ps, i) ==
  IF i < 1 THEN ps
  ELSE LET tag == ps.stack[i].tag
       IN IF tag = "LI" THEN PopToLen(GenerateImpliedEndTags(ps, "LI"), i - 1)
          ELSE IF tag \in SpecialTags /\ tag \notin {"DIV", "P"} THEN ps
          ELSE CloseOpenLi(ps, i - 1)

StartTag(ps, tag, attrs) ==
  CASE tag \in ClosePTags -> InsertElement(ClosePIfInScope(ps), tag, attrs)
    [] tag \in HeadingTags ->
         LET q == ClosePIfInScope(ps)
         IN InsertElement(IF Top(q).tag \in HeadingTags THEN Pop(q) ELSE q, tag, attrs)
    [] tag = "LI" ->
         InsertElement(ClosePIfInScope(CloseOpenLi(ps, Len(ps.stack))), tag, attrs)
    [] tag \in FormattingTags -> PushFormatting(ReconstructFormatting(ps), tag, attrs)
    [] tag \in VoidTags -> AddChild(ReconstructFormatting(ps), Element(tag, attrs, <<>>))
    [] tag \in RawTextTags -> InsertElement(ps, tag, attrs)
    [] OTHER -> InsertElement(ReconstructFormatting(ps), tag, attrs)

\* "any other end tag"
RECURSIVE AnyOtherEndTag(_, _, _)
AnyOtherEndTag(ps, tag, i) ==
  IF i < 1 THEN ps
  ELSE IF ps.stack[i].tag = tag THEN PopToLen(GenerateImpliedEndTags(ps, tag), i - 1)
  ELSE IF ps.stack[i].tag \in SpecialTags THEN ps
  ELSE AnyOtherEndTag(ps, tag, i - 1)

\* the adoption agency algorithm, for the end tag of a formatting element
RECURSIVE AdoptionAgency(_, _)
AdoptionAgency(ps, tag) ==
  LET st == ps.stack
      n == Len(st)
      afe == ps.afe
      InAfe(id) == \E i \in 1..Len(afe) : afe[i].id = id
      cands == {i \in 1..Len(afe) : afe[i].tag = tag}
  IN IF st[n].tag = tag /\ ~InAfe(st[n].id) THEN Pop(ps)
     ELSE IF cands = {} THEN AnyOtherEndTag(ps, tag, n)
     ELSE
       LET fi == CHOOSE i \in cands : \A j \in cands : j <= i
           fe == afe[fi]
       IN IF ~OnStack(st, fe.id) THEN [ps EXCEPT !.afe = RemoveAt(afe, fi)]
          ELSE
            LET si == CHOOSE i \in 1..n : st[i].id = fe.id
                specials == {i \in (si + 1)..n : st[i].tag \in SpecialTags}
            IN IF specials = {}
               THEN [PopToLen(ps, si - 1) EXCEPT !.afe = RemoveAt(afe, fi)]
               ELSE
                 LET fb == CHOOSE i \in specials : \A j \in specials : i <= j
                     between == (si + 1)..(fb - 1)
                     cloned == {i \in between : InAfe(st[i].id)}
                     \* identities of the clones, in stack order, then the new formatting element
                     Rank(i) == Cardinality({j \in cloned : j < i})
                     CloneId(i) == ps.nextId + Rank(i)
                     newFeId == ps.nextId + Cardinality(cloned)
                     \* the original formatting element and the originals below it close where they are
                     Chain[i \in si..(fb - 1)] ==
                       Element(st[i].tag, st[i].attrs,
                               IF i = fb - 1 THEN st[i].kids
                               ELSE Append(st[i].kids, Chain[i + 1]))
                     ancestor == [st[si - 1] EXCEPT !.kids = Append(@, Chain[si])]
                     clonesSeq == [r \in 1..Cardinality(cloned) |->
                                     LET i == CHOOSE c \in cloned : Rank(c) = r - 1
                                     IN [id |-> CloneId(i), tag |-> st[i].tag,
                                         attrs |-> st[i].attrs, kids |-> <<>>]]
                     newFe == [id |-> newFeId, tag |-> fe.tag, attrs |-> fe.attrs,
                               kids |-> st[fb].kids]
                     stack2 == SubSeq(st, 1, si - 2) \o <<ancestor>> \o clonesSeq
                                 \o <<[st[fb] EXCEPT !.kids = <<>>]>> \o <<newFe>>
                                 \o SubSeq(st, fb + 1, n)
                     \* clones replace their originals in the list
                     afe1 == [i \in 1..Len(afe) |->
                                LET hit == {c \in cloned : st[c].id = afe[i].id}
                                IN IF hit = {} THEN afe[i]
                                   ELSE [afe[i] EXCEPT !.id = CloneId(CHOOSE c \in hit : TRUE)]]
                     \* the bookmark: after the clone nearest the furthest block, else at fe
                     nearest == IF cloned = {} THEN 0
                                ELSE CHOOSE c \in cloned : \A d \in cloned : d <= c
                     mark == IF cloned = {} THEN fi
                             ELSE 1 + (CHOOSE i \in 1..Len(afe) : afe[i].id = st[nearest].id)
                     entry == [id |-> newFeId, tag |-> fe.tag, attrs |-> fe.attrs]
                     afe2 == IF mark > fi
                             THEN RemoveAt(InsertAt(afe1, mark, entry), fi)
                             ELSE InsertAt(RemoveAt(afe1, fi), mark, entry)
                 IN AdoptionAgency([ps EXCEPT !.stack = stack2, !.afe = afe2,
                                              !.nextId = newFeId + 1], tag)

\* li is in list item scope when no ol or ul lies between it and the current node
LiInListItemScope(stack) ==
  \E i \in 1..Len(stack) :
     /\ stack[i].tag = "LI"
     /\ \A j \in (i + 1)..Len(stack) : stack[j].tag \notin {"OL", "UL"}

EndTag(ps, tag) ==
  CASE tag = "P" ->
         IF HasTag(ps.stack, {"P"}) THEN ClosePElement(ps)
         ELSE AddChild(ps, Element("P", <<>>, <<>>))
    [] tag = "LI" ->
         IF LiInListItemScope(ps.stack)
         THEN PopUntil(GenerateImpliedEndTags(ps, "LI"), {"LI"})
         ELSE ps
    [] tag \in HeadingTags ->
         IF HasTag(ps.stack, HeadingTags)
         THEN PopUntil(GenerateImpliedEndTags(ps, "none"), HeadingTags)
         ELSE ps
    [] tag \in ClosePTags \ {"P"} ->
         IF HasTag(ps.stack, {tag})
         THEN PopUntil(GenerateImpliedEndTags(ps, "none"), {tag})
         ELSE ps
    [] tag \in FormattingTags -> AdoptionAgency(ps, tag)
    [] tag = "BR" -> AddChild(ReconstructFormatting(ps), Element("BR", <<>>, <<>>))
    [] OTHER -> AnyOtherEndTag(ps, tag, Len(ps.stack))

TreeStep(ps, tok) ==
  IF Top(ps).tag \in RawTextTags
  THEN IF tok.k = "close" /\ UpperOf[tok.v] = Top(ps).tag THEN Pop(ps)
       ELSE AddChars(ps, RawChars(tok))
  ELSE CASE tok.k = "chr" -> AddChars(ReconstructFormatting(ps), <<tok.v>>)
         [] tok.k = "ent" -> AddChars(ReconstructFormatting(ps), <<EntityChar(tok.v)>>)
         [] tok.k = "close" -> EndTag(ps, UpperOf[tok.v])
         [] tok.k = "comment" -> AddChild(ps, [tag |-> "#comment", attrs |-> <<>>,
                                                kids |-> <<>>, text |-> <<tok.v>>])
         [] OTHER -> StartTag(ps, UpperOf[tok.v], tok.a)

\* the parser state after the tokens toks[lo..hi], one after the other; the
\* tokens before lo are consumed (ps is known) before toks[lo] is looked at
RECURSIVE TreeBuild(_, _, _, _)
TreeBuild(ps, toks, lo, hi) ==
  CASE ps.stack = <<>> \/ lo > hi -> ps
    [] lo = hi -> TreeStep(ps, toks[lo])
    [] OTHER -> TreeBuild(TreeBuild(ps, toks, lo, (lo + hi) \div 2), toks,
                          (lo + hi) \div 2 + 1, hi)

\* the children of the root (body, or the element whose innerHTML is set)
\* after parsing toks
ParseHtml(toks) ==
  LET ps0 == [stack |-> <<[id |-> 0, tag |-> "BODY", attrs |-> <<>>, kids |-> <<>>]>>,
              afe |-> <<>>, nextId |-> 1]
  IN PopToLen(TreeBuild(ps0, toks, 1, Len(toks)), 1).stack[1].kids

\* ------------------------------------------------------ keepFormatter.ts

\* escapeHtml: characters to markup tokens
\* an escape that leaves the angle brackets as they are
escapeHtmlButAngles(value) ==
  [i \in 1..Len(value) |->
     CASE value[i] = NBSP -> Chr(" ")
       [] value[i] = "&" -> Ent("amp")
       [] value[i] = "\"" -> Ent("quot")
       [] OTHER -> Chr(value[i])]

escapeHtml(value) ==
  [i \in 1..Len(value) |->
     CASE value[i] = NBSP -> Chr(" ")
       [] value[i] = "&" -> Ent("amp")
       [] value[i] = "<" -> Ent("lt")
       [] value[i] = ">" -> Ent("gt")
       [] value[i] = "\"" -> Ent("quot")
       [] OTHER -> Chr(value[i])]

\* each white-space character replaced by a space, the runs left as long as
\* they are
EachWhiteSpaceToSpace(chars) ==
  [i \in 1..Len(chars) |-> IF chars[i] \in WhiteSpace THEN " " ELSE chars[i]]

\* value.replace(/\s+/g, " ") on characters
CollapseWhiteSpace(chars) ==
  LET first == KeepWhere(chars, {i \in 1..Len(chars) :
                                   \/ chars[i] \notin WhiteSpace
                                   \/ i = 1
                                   \/ chars[i - 1] \notin WhiteSpace})
  IN [i \in 1..Len(first) |-> IF first[i] \in WhiteSpace THEN " " ELSE first[i]]

\* /<br\s*\/?>/ : a br start tag without attributes
IsBr(tok) == IsStartTag(tok) /\ tok.v = "br" /\ tok.a = <<>>

isEffectivelyEmpty(fragment) ==
  LET noBr == SelectSeq(fragment, LAMBDA tok : ~IsBr(tok))
      spaced == [i \in 1..Len(noBr) |-> IF noBr[i] = Ent("nbsp") THEN Chr(" ") ELSE noBr[i]]
      noTags == SelectSeq(spaced, LAMBDA tok : ~IsTag(tok))
      stripped == SelectSeq(noTags, LAMBDA tok : ~IsSpace(tok))
  IN Len(stripped) = 0

\* a wrapper that leaves out the test of isEffectivelyEmpty
wrapAlways(content) ==
  IF content = <<>> THEN <<>>
  ELSE <<Open("p")>> \o Trim(content) \o <<Close("p")>>

wrapParagraph(content) ==
  IF content = <<>> THEN <<>>
  ELSE IF isEffectivelyEmpty(content) THEN <<>>
  ELSE <<Open("p")>> \o Trim(content) \o <<Close("p")>>

\* a map that keeps the source's own tag names
inlineTagMapKept(tagName) ==
  CASE tagName \in {"B", "STRONG", "I", "EM", "U"} -> LowerOf(tagName)
    [] OTHER -> ""

inlineTagMap(tagName) ==
  CASE tagName \in {"B", "STRONG"} -> "b"
    [] tagName \in {"I", "EM"} -> "i"
    [] tagName = "U" -> "u"
    [] OTHER -> ""

blockTags == {"P", "DIV", "SECTION", "ARTICLE", "HEADER", "FOOTER", "H1", "H2", "BR", "OL", "UL"}

\* a JavaScript number: an integer, or NaN
Num(n) == [nan |-> FALSE, val |-> n]
NaN == [nan |-> TRUE, val |-> 0]

\* parseInt(s, 10)
DigitChars == <<"0", "1", "2", "3", "4", "5", "6", "7", "8", "9">>
IsDigit(c) == \E d \in 1..Len(DigitChars) : DigitChars[d] = c
DigitValue(c) == (CHOOSE d \in 1..Len(DigitChars) : DigitChars[d] = c) - 1

RECURSIVE DigitsValue(_, _)
DigitsValue(chars, acc) ==
  IF chars = <<>> \/ ~IsDigit(Head(chars)) THEN acc
  ELSE DigitsValue(Tail(chars), acc * 10 + DigitValue(Head(chars)))

parseInt(chars) ==
  LET s == TrimStart(Text(chars))
      t == [i \in 1..Len(s) |-> s[i].v]
      signed == t /= <<>> /\ Head(t) \in {"-", "+"}
      digits == IF signed THEN Tail(t) ELSE t
  IN IF digits = <<>> \/ ~IsDigit(Head(digits)) THEN NaN
     ELSE IF signed /\ Head(t) = "-" THEN Num(0 - DigitsValue(digits, 0))
     ELSE Num(DigitsValue(digits, 0))

\* `${n}`
RECURSIVE NatChars(_)
NatChars(n) ==
  IF n < 10 THEN <<DigitChars[n + 1]>>
  ELSE NatChars(n \div 10) \o <<DigitChars[(n % 10) + 1]>>

NumberChars(n) ==
  IF n.nan THEN <<"N", "a", "N">>
  ELSE IF n.val < 0 THEN <<"-">> \o NatChars(0 - n.val)
  ELSE NatChars(n.val)

\* "&nbsp;".repeat(n)
Repeat(tok, n) == [i \in 1..n |-> tok]

\* a test that removes script elements only
IsRemovedScriptOnly(tagName) == tagName = "SCRIPT"

\* tagName === "SCRIPT" || tagName === "STYLE"
IsRemovedElement(tagName) == tagName \in {"SCRIPT", "STYLE"}

\* a heading level that is the source's own level
HeadingLevelKept(tagName) == LowerOf(tagName)

\* tagName === "H1" ? "h1" : "h2", for a tag that matches /^H[1-6]$/
HeadingLevel(tagName) == IF tagName = "H1" THEN "h1" ELSE "h2"

RECURSIVE serializeNode(_, _, _)
RECURSIVE serializeChildren(_, _, _)
RECURSIVE convertList(_, _, _)
RECURSIVE convertItems(_, _, _, _, _)

\* a serializer that wraps a block container in a paragraph in inline context
\* too
serializeNodeWrapping(node, inlineContext, depth) ==
  IF IsTextNode(node) THEN escapeHtml(CollapseWhiteSpace(node.text))
  ELSE IF node.tag = "#comment" THEN <<>>
  ELSE
    LET tagName == node.tag
    IN IF IsRemovedElement(tagName) THEN <<>>
       ELSE IF inlineTagMap(tagName) /= ""
       THEN LET tag == inlineTagMap(tagName)
                inner == serializeChildren(node, TRUE, depth)
            IN IF inner /= <<>> THEN <<Open(tag)>> \o inner \o <<Close(tag)>> ELSE <<>>
       ELSE IF tagName \in HeadingTags
       THEN LET level == HeadingLevel(tagName)
                inner == serializeChildren(node, TRUE, depth)
            IN IF inner /= <<>> THEN <<Open(level)>> \o inner \o <<Close(level)>> ELSE <<>>
       ELSE IF tagName = "BR" THEN <<SelfClose("br")>>
       ELSE IF tagName \in {"OL", "UL"} THEN convertList(node, tagName = "OL", depth)
       ELSE IF tagName \in blockTags
       THEN wrapParagraph(serializeChildren(node, FALSE, depth))
       ELSE LET inner == serializeChildren(node, inlineContext, depth)
            IN IF inlineContext THEN inner ELSE wrapParagraph(inner)

\* a serializer that discards an element outside the supported tag sets with
\* its children
serializeNodeDroppingUnknown(node, inlineContext, depth) ==
  IF IsTextNode(node) THEN escapeHtml(CollapseWhiteSpace(node.text))
  ELSE IF node.tag = "#comment" THEN <<>>
  ELSE
    LET tagName == node.tag
    IN IF IsRemovedElement(tagName) THEN <<>>
       ELSE IF inlineTagMap(tagName) /= ""
       THEN LET tag == inlineTagMap(tagName)
                inner == serializeChildren(node, TRUE, depth)
            IN IF inner /= <<>> THEN <<Open(tag)>> \o inner \o <<Close(tag)>> ELSE <<>>
       ELSE IF tagName \in HeadingTags
       THEN LET level == HeadingLevel(tagName)
                inner == serializeChildren(node, TRUE, depth)
            IN IF inner /= <<>> THEN <<Open(level)>> \o inner \o <<Close(level)>> ELSE <<>>
       ELSE IF tagName = "BR" THEN <<SelfClose("br")>>
       ELSE IF tagName \in {"OL", "UL"} THEN convertList(node, tagName = "OL", depth)
       ELSE IF tagName \in blockTags /\ ~inlineContext
       THEN wrapParagraph(serializeChildren(node, FALSE, depth))
       ELSE IF tagName \in blockTags THEN serializeChildren(node, inlineContext, depth)
       ELSE <<>>

serializeNode(node, inlineContext, depth) ==
  IF IsTextNode(node) THEN escapeHtml(CollapseWhiteSpace(node.text))
  ELSE IF node.tag = "#comment" THEN <<>>
  ELSE
    LET tagName == node.tag
    IN IF IsRemovedElement(tagName) THEN <<>>
       ELSE IF inlineTagMap(tagName) /= ""
       THEN LET tag == inlineTagMap(tagName)
                inner == serializeChildren(node, TRUE, depth)
            IN IF inner /= <<>> THEN <<Open(tag)>> \o inner \o <<Close(tag)>> ELSE <<>>
       ELSE IF tagName \in HeadingTags
       THEN LET level == HeadingLevel(tagName)
                inner == serializeChildren(node, TRUE, depth)
            IN IF inner /= <<>> THEN <<Open(level)>> \o inner \o <<Close(level)>> ELSE <<>>
       ELSE IF tagName = "BR" THEN <<SelfClose("br")>>
       ELSE IF tagName \in {"OL", "UL"} THEN convertList(node, tagName = "OL", depth)
       ELSE IF tagName \in blockTags /\ ~inlineContext
       THEN wrapParagraph(serializeChildren(node, FALSE, depth))
       ELSE LET inner == serializeChildren(node, inlineContext, depth)
            IN IF inlineContext THEN inner ELSE wrapParagraph(inner)

serializeChildren(element, inlineContext, depth) ==
  Flatten([i \in 1..Len(element.kids) |-> serializeNode(element.kids[i], inlineContext, depth)])

\* a counter that stays where it is
SameNumber(current) == current

\* current += 1
NextNumber(current) == IF current.nan THEN NaN ELSE Num(current.val + 1)

\* an indentation of two entities for each level
IndentOfTwo(depth) == Repeat(Ent("nbsp"), depth * 2)

\* depth > 0 ? "&nbsp;".repeat(depth * 4) : ""
IndentOf(depth) == IF depth > 0 THEN Repeat(Ent("nbsp"), depth * 4) ELSE <<>>

\* the item's sublists pushed before the item's own paragraph
SublistsFirst(paragraph, sublists) == sublists \o paragraph

\* the item's paragraph pushed twice
ParagraphTwice(paragraph, sublists) == paragraph \o paragraph \o sublists

\* fragments.push(paragraph), then fragments.push(convertList(...)) for each
\* nested list
ItemFragments(paragraph, sublists) == paragraph \o sublists

\* the body of items.forEach, from item i on, with the running counter
convertItems(items, i, isOrdered, depth, current) ==
  IF i > Len(items) THEN <<>>
  ELSE
    LET li == items[i]
        childNodes == li.kids
        IsNested(child) == child.tag \in {"OL", "UL"}
        nested == SelectSeq(childNodes, IsNested)
        rest == SelectSeq(childNodes, LAMBDA child : ~IsNested(child))
        inlineContent ==
          Trim(Flatten([j \in 1..Len(rest) |-> serializeNode(rest[j], TRUE, depth)]))
        indent == IndentOf(depth)
        prefix == IF isOrdered THEN Text(NumberChars(current) \o <<".", " ">>)
                  ELSE Text(<<"-", " ">>)
        lineContent == IF inlineContent /= <<>> THEN inlineContent ELSE <<Ent("nbsp")>>
        paragraph == <<Open("p")>> \o indent \o prefix \o lineContent \o <<Close("p")>>
        sublists == Flatten([j \in 1..Len(nested) |->
                               convertList(nested[j], nested[j].tag = "OL", depth + 1)])
    IN ItemFragments(paragraph, sublists)
         \o convertItems(items, i + 1, isOrdered, depth, NextNumber(current))

convertList(listElement, isOrdered, depth) ==
  LET items == SelectSeq(listElement.kids, LAMBDA child : child.tag = "LI")
      startValue == IF isOrdered
                    THEN parseInt(IF HasAttribute(listElement.attrs, "start")
                                  THEN GetAttribute(listElement.attrs, "start")
                                  ELSE <<"1">>)
                    ELSE Num(1)
  IN IF Len(items) = 0 THEN <<>>
     ELSE convertItems(items, 1, isOrdered, depth, startValue)

\* /<p[^>]*>/
IsOpenP(tok) == IsStartTag(tok) /\ tok.v = "p"
\* /<h[12][^>]*>/
IsOpenH12(tok) == IsStartTag(tok) /\ tok.v \in {"h1", "h2"}
\* /<\/?(?:h1|h2|p|br)[^>]*>/
IsBlockEdge(tok) == tok.k \in {"open", "close", "selfclose"} /\ tok.v \in {"h1", "h2", "p", "br"}
\* /\s|&nbsp;|<br\s*\/?>/
IsFiller(tok) == IsSpace(tok) \/ tok = Ent("nbsp") \/ IsBr(tok)

\* the token classes the regular expressions of the source use
Matches(class, tok) ==
  CASE class = "\\s" -> IsSpace(tok)
    [] class = "\\s|&nbsp;|<br>" -> IsFiller(tok)
    [] class = "<p>" -> IsOpenP(tok)
    [] class = "<h[12]>" -> IsOpenH12(tok)
    [] class = "<br>" -> IsBr(tok)
    [] class = "</?(h1|h2|p|br)>" -> IsBlockEdge(tok)

\* the first index from i on whose token is not of the class
SkipWhile(s, i, class) ==
  Min({j \in i..(Len(s) + 1) : j > Len(s) \/ ~Matches(class, s[j])})

\* the last index up to i whose token is not white space, or 0
LastSolid(s, i) ==
  Max({0} \cup {j \in 1..i : ~IsSpace(s[j])})

\* global replace of /<p>(?:\s|&nbsp;|<br\s*\/?>)*<\/p>/ by "": a match starts
\* at the last <p> before each of its tokens
RemoveEmptyParagraphs(s) ==
  LET InMatch(k) ==
        LET opens == {i \in 1..k : s[i] = Open("p")}
        IN opens /= {}
           /\ LET j == SkipWhile(s, Max(opens) + 1, "\\s|&nbsp;|<br>")
              IN j <= Len(s) /\ s[j] = Close("p") /\ k <= j
  IN KeepWhere(s, {k \in 1..Len(s) : ~InMatch(k)})

\* global replace of /(T)(\s+)/ by "$1", T a tag of the class
StripSpaceAfter(s, class) ==
  LET Stripped(k) ==
        /\ IsSpace(s[k])
        /\ LastSolid(s, k) >= 1
        /\ Matches(class, s[LastSolid(s, k)])
  IN KeepWhere(s, {k \in 1..Len(s) : ~Stripped(k)})

\* a replacement that removes only the one white space next to the tag
StripOneSpaceBefore(s, class) ==
  KeepWhere(s, {k \in 1..Len(s) :
                  ~(IsSpace(s[k]) /\ k < Len(s) /\ Matches(class, s[k + 1]))})

\* global replace of /\s+(T)/ by "$1", T a tag of the class
StripSpaceBefore(s, class) ==
  LET Stripped(k) ==
        /\ IsSpace(s[k])
        /\ LET j == SkipWhile(s, k, "\\s")
           IN j <= Len(s) /\ Matches(class, s[j])
  IN KeepWhere(s, {k \in 1..Len(s) : ~Stripped(k)})

cleanupOutput(markup) ==
  LET r1 == RemoveEmptyParagraphs(markup)
      r2 == StripSpaceAfter(r1, "<p>")
      r3 == StripSpaceAfter(r2, "<h[12]>")
      r4 == StripSpaceAfter(r3, "<br>")
      r5 == StripSpaceBefore(r4, "</?(h1|h2|p|br)>")
  IN Trim(r5)

\* --------------------------------------------------- plain text projection

Paragraph(content) == <<Open("p")>> \o content \o <<Close("p")>>

\* global replace of /(<\/(?:p|ol|ul)>)(\s*)(<h[12][^>]*>)/ by "$1<p>&nbsp;</p>$2$3"
SeparateHeadings(s) ==
  LET BeforeHeading(i) ==
        /\ s[i].k = "close"
        /\ s[i].v \in {"p", "ol", "ul"}
        /\ LET j == SkipWhile(s, i + 1, "\\s")
           IN j <= Len(s) /\ IsOpenH12(s[j])
  IN Flatten([i \in 1..Len(s) |->
                IF BeforeHeading(i) THEN <<s[i]>> \o Paragraph(<<Ent("nbsp")>>)
                ELSE <<s[i]>>])

injectHeadingSeparators(markup) ==
  LET updated == SeparateHeadings(markup)
      j == SkipWhile(updated, 1, "\\s")
  IN IF j <= Len(updated) /\ IsOpenH12(updated[j])
     THEN Paragraph(<<Ent("nbsp")>>) \o updated
     ELSE updated

\* Node.textContent of a list of sibling nodes
RECURSIVE TextContent(_)
TextContent(kids) ==
  Flatten([i \in 1..Len(kids) |->
             IF IsTextNode(kids[i]) THEN kids[i].text
             ELSE IF kids[i].tag = "#comment" THEN <<>>
             ELSE TextContent(kids[i].kids)])

\* split("\n"), keep a line that starts with four spaces and strip the
\* leading white space of any other, join("\n")
NormalizeLines(chars) ==
  LET LineStart(k) == 1 + Max({0} \cup {j \in 1..(k - 1) : chars[j] = "\n"})
      StartsWithIndent(ls) == ls + 3 <= Len(chars) /\ \A m \in ls..(ls + 3) : chars[m] = " "
      Leading(k) ==
        /\ chars[k] /= "\n"
        /\ ~StartsWithIndent(LineStart(k))
        /\ \A m \in LineStart(k)..k : chars[m] \in WhiteSpace
  IN KeepWhere(chars, {k \in 1..Len(chars) : ~Leading(k)})

\* a replacement that starts at runs of four line feeds and leaves three
CollapseLongRunsOnly(chars) ==
  KeepWhere(chars, {k \in 1..Len(chars) :
                      ~(/\ k + 3 <= Len(chars)
                        /\ \A m \in k..(k + 3) : chars[m] = "\n")})

\* replace(/\n{2,}/g, "\n\n")
CollapseBlankLines(chars) ==
  KeepWhere(chars, {k \in 1..Len(chars) :
                      ~(/\ k + 2 <= Len(chars)
                        /\ \A m \in k..(k + 2) : chars[m] = "\n")})

TrimChars(chars) == LET t == Trim(Text(chars)) IN [i \in 1..Len(t) |-> t[i].v]

\* normalizedLines: the text of the markup with its line breaks, the leading
\* white space of its lines stripped
NormalizedLinesOf(markup) ==
    LET injected == injectHeadingSeparators(markup)
        broken == [i \in 1..Len(injected) |->
                     IF IsBr(injected[i]) \/ injected[i] = Close("p")
                        \/ injected[i] \in {Close("h1"), Close("h2")}
                     THEN Chr("\n") ELSE injected[i]]
        innerText == TextContent(ParseHtml(broken))
        textContent == [i \in 1..Len(innerText) |->
                          IF innerText[i] = NBSP THEN " " ELSE innerText[i]]
    IN NormalizeLines(textContent)

\* the result is a string of characters, not markup
markupToPlainText(markup) ==
  IF markup = <<>> THEN <<>>
  ELSE TrimChars(CollapseBlankLines(NormalizedLinesOf(markup)))

\* ------------------------------------------------ clipboard HTML projection

KEEP_BLOCK_STYLE == "line-height:1.38;margin-top:0pt;margin-bottom:0pt;"
KEEP_TEXT_BASE == "font-size:11pt;font-family:'Google Sans Text';color:#000000;background-color:transparent;font-weight:400;font-style:normal;font-variant:normal;text-decoration:none;vertical-align:baseline;white-space:pre;white-space:pre-wrap;"
KEEP_H1_TEXT == "font-size:15pt;font-family:'Google Sans';color:#000000;background-color:transparent;font-weight:400;font-style:normal;font-variant:normal;text-decoration:none;vertical-align:baseline;white-space:pre;white-space:pre-wrap;"
KEEP_H2_TEXT == "font-size:13.5pt;font-family:'Google Sans';color:#000000;background-color:transparent;font-weight:400;font-style:normal;font-variant:normal;text-decoration:none;vertical-align:baseline;white-space:pre;white-space:pre-wrap;"

\* Element.setAttribute
SetAttribute(attrs, name, value) ==
  IF HasAttribute(attrs, name)
  THEN [i \in 1..Len(attrs) |-> IF attrs[i][1] = name THEN <<name, value>> ELSE attrs[i]]
  ELSE Append(attrs, <<name, value>>)

\* a wrapper appended to the block without the block's children moved into it
appendEmptySpan(block, spanStyle) ==
  [block EXCEPT !.kids = Append(block.kids, Element("SPAN", <<<<"style", spanStyle>>>>, <<>>))]

\* the block's children move into one new span, the block's only child
wrapChildrenWithSpan(block, spanStyle) ==
  [block EXCEPT !.kids = <<Element("SPAN", <<<<"style", spanStyle>>>>, block.kids)>>]

\* blocks.forEach over querySelectorAll("p,h1,h2"), as one pass over the tree
RECURSIVE DecorateBlocks(_)
DecorateBlocks(kids) ==
  [i \in 1..Len(kids) |->
     LET node == kids[i]
     IN IF IsTextNode(node) \/ node.tag = "#comment" THEN node
        ELSE LET inner == [node EXCEPT !.kids = DecorateBlocks(node.kids)]
             IN IF node.tag \in {"P", "H1", "H2"}
                THEN LET tag == LowerOf(node.tag)
                         spanStyle == IF tag = "h1" THEN KEEP_H1_TEXT
                                      ELSE IF tag = "h2" THEN KEEP_H2_TEXT
                                      ELSE KEEP_TEXT_BASE
                         styled == [inner EXCEPT !.attrs =
                                      SetAttribute(SetAttribute(@, "dir", "ltr"),
                                                   "style", KEEP_BLOCK_STYLE)]
                     IN wrapChildrenWithSpan(styled, spanStyle)
                ELSE inner]

\* Element.innerHTML (the HTML fragment serialization algorithm)
EscapeText(chars) ==
  [i \in 1..Len(chars) |->
     CASE chars[i] = NBSP -> Ent("nbsp")
       [] chars[i] = "&" -> Ent("amp")
       [] chars[i] = "<" -> Ent("lt")
       [] chars[i] = ">" -> Ent("gt")
       [] OTHER -> Chr(chars[i])]

RECURSIVE InnerHTML(_, _)
InnerHTML(kids, parentTag) ==
  Flatten([i \in 1..Len(kids) |->
             LET node == kids[i]
             IN IF IsTextNode(node)
                THEN IF parentTag \in RawTextTags THEN Text(node.text)
                     ELSE EscapeText(node.text)
                ELSE IF node.tag = "#comment" THEN <<Comment(node.text[1])>>
                ELSE IF node.tag \in VoidTags
                THEN <<OpenA(LowerOf(node.tag), node.attrs)>>
                ELSE <<OpenA(LowerOf(node.tag), node.attrs)>>
                       \o InnerHTML(node.kids, node.tag)
                       \o <<Close(LowerOf(node.tag))>>])

convertToKeepClipboardHtml(markup) ==
  IF markup = <<>> THEN <<>>
  ELSE LET body == ParseHtml(<<Open("div")>> \o markup \o <<Close("div")>>)
       IN InnerHTML(DecorateBlocks(body), "BODY")

\* -------------------------------------------------------- the entry point

\* rawHtml.replace(/\u00a0/g, " ")
NormalizeInput(rawHtml) ==
  [i \in 1..Len(rawHtml) |-> IF rawHtml[i] = Chr(NBSP) THEN Chr(" ") ELSE rawHtml[i]]

\* normalizedInput.replace(/<[^>]*>/g, "").trim()
TextOnly(normalizedInput) ==
  Trim(SelectSeq(normalizedInput, LAMBDA tok : ~IsTag(tok)))

\* the child nodes of the body of the document parsed from <div>input</div>
ParseDocument(normalizedInput) ==
  ParseHtml(<<Open("div")>> \o normalizedInput \o <<Close("div")>>)

\* Array.from(childNodes).map(serializeNode(node, false, 0)).filter(Boolean).join("")
SerializeBody(childNodes) ==
  Flatten([i \in 1..Len(childNodes) |-> serializeNode(childNodes[i], FALSE, 0)])

\* ------------------------------------------------------------- the inputs

MaxTokens == 3
MaxItems == 3
MaxDepth == 2
MaxBlocks == 2
\* the number of times an output is converted in a row
MaxCalls == 2

\* every sequence over S of length at most n
RECURSIVE SeqsUpTo(_, _)
SeqsUpTo(S, n) ==
  IF n = 0 THEN {<<>>}
  ELSE LET shorter == SeqsUpTo(S, n - 1)
       IN shorter \cup {Append(q, x) : q \in shorter, x \in S}

\* markup as it comes: any tokens in any order, tags left open or closed twice
LooseTokens ==
  {Chr("a"), Chr(" "), Ent("nbsp"), Open("p"), Close("p"), Close("div"),
   Open("h3"), Open("b"), Open("ul"), Open("li")}

LooseInputs == SeqsUpTo(LooseTokens, MaxTokens)

\* nested lists, given by the nesting depth of each item in document order and
\* the kind of list used at each depth
ListKinds ==
  <<Open("ul"), Open("ol"), OpenA("ol", <<<<"start", <<"9">>>>>>)>>

Outlines ==
  {d \in SeqsUpTo(0..MaxDepth, MaxItems) :
     /\ Len(d) >= 1
     /\ d[1] = 0
     /\ \A i \in 2..Len(d) : d[i] <= d[i - 1] + 1}

ItemLetters == <<"a", "b", "c", "d", "e", "f">>

\* close the item at depth from and every list and item down to depth to
RECURSIVE CloseDownTo(_, _, _)
CloseDownTo(kinds, from, to) ==
  IF from <= to THEN <<Close("li")>>
  ELSE <<Close("li"), Close(kinds[from + 1].v)>> \o CloseDownTo(kinds, from - 1, to)

RECURSIVE RenderItems(_, _, _)
RenderItems(outline, kinds, i) ==
  LET item == <<Open("li"), Chr(ItemLetters[((i - 1) % Len(ItemLetters)) + 1])>>
      last == i = Len(outline)
      after == IF last THEN CloseDownTo(kinds, outline[i], 0) \o <<Close(kinds[1].v)>>
               ELSE IF outline[i + 1] > outline[i] THEN <<kinds[outline[i + 1] + 1]>>
               ELSE CloseDownTo(kinds, outline[i], outline[i + 1])
  IN item \o after \o (IF last THEN <<>> ELSE RenderItems(outline, kinds, i + 1))

RenderList(outline, kinds) == <<kinds[1]>> \o RenderItems(outline, kinds, 1)

ListInputs ==
  {RenderList(outline, kinds) :
     outline \in Outlines,
     kinds \in [1..(MaxDepth + 1) -> {ListKinds[j] : j \in 1..Len(ListKinds)}]}

\* documents: a few blocks in a row
Blocks ==
  {<<Open("h1"), Chr("T"), Close("h1")>>,
   <<Open("h2"), Chr("a"), Close("h2")>>,
   <<Open("h3"), Chr("a"), Close("h3")>>,
   <<Open("h4"), Chr("a"), Open("br"), Close("h4")>>,
   <<Open("h5"), Chr(" "), Chr("a"), Chr(" "), Open("span"), Chr(" "), Close("span"),
     Close("h5")>>,
   <<Open("h6"), Open("em"), Chr("a"), Close("em"), Close("h6")>>,
   <<Open("h1"), Chr(" "), Close("h1")>>,
   <<Open("div"), Chr("b"), Chr(" "), Open("strong"), Chr("a"), Close("strong"), Close("div")>>,
   <<Open("p"), Chr("a"), Chr(" "), Open("br"), Chr(" "), Chr("b"), Close("p")>>,
   <<Open("script"), Chr("x"), Close("script")>>,
   <<Open("style"), Chr("y"), Close("style")>>,
   <<Open("figure"), Open("img"), Close("figure")>>,
   <<Open("p"), Open("span"), Chr(" "), Close("span"), Open("span"), Chr(" "), Chr("a"),
     Close("span"), Close("p")>>,
   <<Open("div"), Open("p"), Chr("a"), Close("p"), Open("p"), Chr(NBSP), Close("p"), Close("div")>>,
   <<Open("p"), Ent("lt"), Ent("amp"), Ent("gt"), Ent("quot"), Close("p")>>,
   <<Open("p"), Chr("a"), Chr(" "), Ent("nbsp"), Chr("\n"), Ent("amp"), Ent("quot"), Chr(" "),
     Chr("\t"), Ent("lt"), Ent("gt"), Close("p")>>,
   <<Open("b"), Open("div"), Chr("a"), Close("div"), Close("b")>>,
   <<Open("i"), Chr("a"), Close("i"), Open("u"), Chr(" "), Close("u"), Open("em"),
     Close("em")>>,
   <<Open("ul"), Open("li"), Ent("nbsp"), Close("li"), Chr("z"), Close("ul")>>,
   <<Open("ol"), Open("li"), Chr("a"), Open("ul"), Open("li"), Chr("b"), Close("li"),
     Close("ul"), Chr("c"), Close("li"), Close("ol")>>,
   <<OpenA("ol", <<<<"start", <<"x">>>>>>), Open("li"), Chr("a"), Close("li"), Close("ol")>>,
   <<OpenA("ol", <<<<"start", <<>>>>>>), Open("li"), Chr("a"), Close("li"), Close("ol")>>,
   <<OpenA("ol", <<<<"start", <<"-", "3">>>>>>), Open("li"), Chr("a"), Close("li"),
     Open("li"), Chr("b"), Close("li"), Close("ol")>>,
   <<Open("ul"), Chr("z"), Close("ul")>>,
   <<Comment("c"), Chr(" ")>>,
   <<Chr("a")>>}

BlockInputs == {Flatten(q) : q \in SeqsUpTo(Blocks, MaxBlocks)}

Inputs == LooseInputs \cup ListInputs \cup BlockInputs

\* ------------------------------------------------------ the state machine

\* rawHtml: the argument of the call; body, serialized: the locals of the
\* call; converted: the record it returns; previous: the record the call
\* before returned; recleaned: the cleaner applied to the html once more
VARIABLES rawHtml, pc, calls, body, serialized, converted, previous, recleaned

\* the state of the page (layout.tsx, Home): richCopyState and plainCopyState
\* are its two copy states; clicks: the copy buttons pressed so far, each with
\* the converted record its handler closed over; clipboard: the calls made to
\* navigator.clipboard so far; promises: the calls not settled yet; timers:
\* the timeouts scheduled and not fired yet; now: the time in milliseconds;
\* setAt: the time each copy state was last set to "copied" or "error"
VARIABLES richCopyState, plainCopyState, clicks, clipboard, promises, timers, now, setAt

page == <<richCopyState, plainCopyState, clicks, clipboard, promises, timers, now, setAt>>

vars == <<rawHtml, pc, calls, body, serialized, converted, previous, recleaned,
          richCopyState, plainCopyState, clicks, clipboard, promises, timers, now, setAt>>

\* the record of a return statement that leaves plainText out
ResultWithoutPlainText(html, keepHtml, plainText) ==
  [html |-> html, keepHtml |-> keepHtml]

\* the record convertRichTextToKeepMarkup returns
ConvertedMarkup(html, keepHtml, plainText) ==
  [html |-> html, keepHtml |-> keepHtml, plainText |-> plainText]

NoResult == ConvertedMarkup(<<>>, <<>>, <<>>)

Init ==
  /\ rawHtml \in Inputs
  /\ pc = "input"
  /\ calls = 0
  /\ body = <<>>
  /\ serialized = <<>>
  /\ converted = NoResult
  /\ previous = NoResult
  /\ recleaned = <<>>
  /\ richCopyState = "idle"
  /\ plainCopyState = "idle"
  /\ clicks = <<>>
  /\ clipboard = <<>>
  /\ promises = <<>>
  /\ timers = <<>>
  /\ now = 0
  /\ setAt = [rich |-> 0, plain |-> 0]

\* one call of convertRichTextToKeepMarkup(rawHtml)
convertRichTextToKeepMarkup ==
  /\ pc = "input"
  /\ LET normalizedInput == NormalizeInput(rawHtml)
     IN IF TextOnly(normalizedInput) = <<>>
        THEN /\ body' = <<>>
             /\ serialized' = <<>>
             /\ converted' = ConvertedMarkup(<<>>, <<>>, <<>>)
        ELSE /\ body' = ParseDocument(normalizedInput)
             /\ serialized' = SerializeBody(body')
             /\ \E html \in {cleanupOutput(serialized')} :
                  converted' = ConvertedMarkup(html, convertToKeepClipboardHtml(html),
                                               markupToPlainText(html))
  /\ calls' = calls + 1
  /\ pc' = "converted"
  /\ UNCHANGED <<rawHtml, previous, recleaned>>
  /\ UNCHANGED page

\* the html of the result is given to the converter as its next input
ConvertAgain ==
  /\ pc = "converted"
  /\ calls < MaxCalls
  /\ rawHtml' = converted.html
  /\ previous' = converted
  /\ pc' = "input"
  /\ UNCHANGED <<calls, body, serialized, converted, recleaned>>
  /\ UNCHANGED page

\* cleanupOutput is applied to its own result
CleanAgain ==
  /\ pc = "converted"
  /\ recleaned' = cleanupOutput(converted.html)
  /\ pc' = "recleaned"
  /\ UNCHANGED <<rawHtml, calls, body, serialized, converted, previous>>
  /\ UNCHANGED page

Next == convertRichTextToKeepMarkup \/ ConvertAgain \/ CleanAgain

Spec == Init /\ [][Next]_vars

\* ------------------------------------------------------------------ the page

\* the number of times a copy button is pressed
MaxCopies == 2

\* what the editor may hold: nothing that shows, or a heading and a paragraph
EditorContents ==
  {<<Open("p"), Chr(" "), Close("p")>>,
   <<Open("h1"), Chr("T"), Close("h1"), Open("div"), Chr("b"), Chr(" "), Open("strong"),
     Chr("a"), Close("strong"), Close("div")>>}

\* html.replace(/<[^>]*>/g, "") as characters
StripTags(html) ==
  LET text == SelectSeq(html, LAMBDA tok : ~IsTag(tok))
  IN Flatten([i \in 1..Len(text) |-> RawChars(text[i])])

\* the markup itself as characters
MarkupChars(html) == Flatten([i \in 1..Len(html) |-> RawChars(html[i])])

\* a payload that is the display html
DisplayHtmlPayload(result) == result.html

\* converted.keepHtml || converted.html
HtmlPayload(result) == IF result.keepHtml /= <<>> THEN result.keepHtml ELSE result.html

\* converted.plainText || converted.html.replace(/<[^>]*>/g, "")
PlainPayload(result) ==
  IF result.plainText /= <<>> THEN result.plainText ELSE StripTags(result.html)

\* converted.plainText || converted.html
TextPayload(result) ==
  IF result.plainText /= <<>> THEN result.plainText ELSE MarkupChars(result.html)

\* new ClipboardItem({"text/html": htmlBlob, "text/plain": textBlob})
ClipboardItem(htmlBlob, textBlob) == [html |-> htmlBlob, plain |-> textBlob]

\* what writeText puts on the clipboard: a plain-text representation only
TextItem(text) == [plain |-> text]

\* a call of navigator.clipboard made by the handler of the click-th click
ClipboardCall(click, button, method, item) ==
  [click |-> click, button |-> button, method |-> method, item |-> item]

\* the step of the clock, in milliseconds
TickMs == 1000

\* a timeout whose callback sets no state
TimerForNothing(delay, resets) == [due |-> now + delay, resets |-> {}]

\* setTimeout(callback, delay), the callback setting the states of resets to
\* idle: it is due delay milliseconds from now
Timer(delay, resets) == [due |-> now + delay, resets |-> resets]

\* the sequence s without its i-th element
Without(s, i) == SubSeq(s, 1, i - 1) \o SubSeq(s, i + 1, Len(s))

\* useState("") and the useState("idle") of the two copy states, before the
\* first render
PageInit ==
  /\ rawHtml = <<>>
  /\ pc = "input"
  /\ calls = 0
  /\ body = <<>>
  /\ serialized = <<>>
  /\ converted = NoResult
  /\ previous = NoResult
  /\ recleaned = <<>>
  /\ richCopyState = "idle"
  /\ plainCopyState = "idle"
  /\ clicks = <<>>
  /\ clipboard = <<>>
  /\ promises = <<>>
  /\ timers = <<>>
  /\ now = 0
  /\ setAt = [rich |-> 0, plain |-> 0]

\* setInputHtml(editorRef.current.innerHTML): when inputHtml changes, the next
\* render calls convertRichTextToKeepMarkup(inputHtml) through useMemo. The
\* handlers read converted before their await only, so an edit made while a
\* write or a timeout is pending is taken here before or after it
handleEditorInput ==
  /\ pc = "converted"
  /\ calls < MaxCalls
  /\ promises = <<>>
  /\ timers = <<>>
  /\ rawHtml' \in EditorContents \ {rawHtml}
  /\ pc' = "input"
  /\ UNCHANGED <<calls, body, serialized, converted, previous, recleaned>>
  /\ UNCHANGED page

\* the rich-copy button's handler, up to its await or through its catch when
\* navigator.clipboard is missing
copyRichText ==
  /\ pc = "converted"
  /\ Len(clicks) < MaxCopies
  /\ clicks' = Append(clicks, [button |-> "rich", converted |-> converted])
  /\ IF converted.html = <<>>
     THEN UNCHANGED <<clipboard, promises, richCopyState, timers, setAt>>
     ELSE \E platform \in {"ClipboardItem", "writeText", "none"} :
            IF platform = "none"
            THEN /\ richCopyState' = "error"
                 /\ setAt' = [setAt EXCEPT !.rich = now]
                 /\ timers' = Append(timers, Timer(2500, {"rich"}))
                 /\ UNCHANGED <<clipboard, promises>>
            ELSE /\ clipboard' = Append(clipboard,
                      IF platform = "ClipboardItem"
                      THEN ClipboardCall(Len(clicks) + 1, "rich", "write",
                             ClipboardItem(HtmlPayload(converted), PlainPayload(converted)))
                      ELSE ClipboardCall(Len(clicks) + 1, "rich", "writeText",
                             TextItem(TextPayload(converted))))
                 /\ promises' = Append(promises, Len(clipboard) + 1)
                 /\ UNCHANGED <<richCopyState, timers, setAt>>
  /\ UNCHANGED <<rawHtml, pc, calls, body, serialized, converted, previous, recleaned,
                 plainCopyState, now>>

\* the plain-copy button's handler, up to its await or through its catch when
\* navigator.clipboard is missing
copyPlainText ==
  /\ pc = "converted"
  /\ Len(clicks) < MaxCopies
  /\ clicks' = Append(clicks, [button |-> "plain", converted |-> converted])
  /\ IF converted.plainText = <<>>
     THEN UNCHANGED <<clipboard, promises, plainCopyState, timers, setAt>>
     ELSE \E platform \in {"writeText", "none"} :
            IF platform = "none"
            THEN /\ plainCopyState' = "error"
                 /\ setAt' = [setAt EXCEPT !.plain = now]
                 /\ timers' = Append(timers, Timer(2500, {"plain"}))
                 /\ UNCHANGED <<clipboard, promises>>
            ELSE /\ clipboard' = Append(clipboard,
                      ClipboardCall(Len(clicks) + 1, "plain", "writeText",
                                    TextItem(converted.plainText)))
                 /\ promises' = Append(promises, Len(clipboard) + 1)
                 /\ UNCHANGED <<plainCopyState, timers, setAt>>
  /\ UNCHANGED <<rawHtml, pc, calls, body, serialized, converted, previous, recleaned,
                 richCopyState, now>>

\* a clipboard promise resolves: the handler goes on after its await with
\* set...CopyState("copied") and resetCopyStates()
clipboardResolves ==
  \E i \in 1..Len(promises) :
    /\ promises' = Without(promises, i)
    /\ IF clipboard[promises[i]].button = "rich"
       THEN richCopyState' = "copied" /\ UNCHANGED plainCopyState
       ELSE plainCopyState' = "copied" /\ UNCHANGED richCopyState
    /\ setAt' = [setAt EXCEPT ![clipboard[promises[i]].button] = now]
    /\ timers' = Append(timers, Timer(2000, {"rich", "plain"}))
    /\ UNCHANGED <<rawHtml, pc, calls, body, serialized, converted, previous, recleaned,
                   clicks, clipboard, now>>

\* a clipboard promise rejects: the handler's catch sets its own state to
\* "error" and schedules its return to idle
clipboardRejects ==
  \E i \in 1..Len(promises) :
    /\ promises' = Without(promises, i)
    /\ IF clipboard[promises[i]].button = "rich"
       THEN richCopyState' = "error" /\ UNCHANGED plainCopyState
       ELSE plainCopyState' = "error" /\ UNCHANGED richCopyState
    /\ setAt' = [setAt EXCEPT ![clipboard[promises[i]].button] = now]
    /\ timers' = Append(timers, Timer(2500, {clipboard[promises[i]].button}))
    /\ UNCHANGED <<rawHtml, pc, calls, body, serialized, converted, previous, recleaned,
                   clicks, clipboard, now>>

\* a timeout that is due fires
timerFires ==
  \E i \in 1..Len(timers) :
    /\ timers[i].due <= now
    /\ timers' = Without(timers, i)
    /\ richCopyState' = IF "rich" \in timers[i].resets THEN "idle" ELSE richCopyState
    /\ plainCopyState' = IF "plain" \in timers[i].resets THEN "idle" ELSE plainCopyState
    /\ UNCHANGED <<rawHtml, pc, calls, body, serialized, converted, previous, recleaned,
                   clicks, clipboard, promises, now, setAt>>

\* time passes while a timeout is pending, up to the time the next one is due
Tick ==
  /\ timers /= <<>>
  /\ \A i \in 1..Len(timers) : timers[i].due > now
  /\ now' = now + TickMs
  /\ UNCHANGED <<rawHtml, pc, calls, body, serialized, converted, previous, recleaned,
                 richCopyState, plainCopyState, clicks, clipboard, promises, timers, setAt>>

PageNext ==
  \/ convertRichTextToKeepMarkup
  \/ handleEditorInput
  \/ copyRichText
  \/ copyPlainText
  \/ clipboardResolves
  \/ clipboardRejects
  \/ timerFires
  \/ Tick

PageSpec == PageInit /\ [][PageNext]_vars

\* the page with a clock that goes on and timeouts that fire when they are due
PageLiveSpec == PageSpec /\ WF_vars(Tick) /\ WF_vars(timerFires)

\* ------------------------------------------------------------- properties

\* the call has returned
Returned == pc = "converted"

\* the text of the input, its tags stripped, is empty or only white space,
\* non-breaking spaces and &nbsp; entities
BlankText(input) ==
  \A i \in 1..Len(input) :
    IsTag(input[i]) \/ IsSpace(input[i]) \/ input[i] = Ent("nbsp")

\* C1: for every input whose text, tags stripped, is empty or only white
\* space, non-breaking spaces or &nbsp; entities, the call returns html = "",
\* keepHtml = "", plainText = "" and an empty diagnostics list
C1_BlankInputGivesEmptyResult ==
  (Returned /\ BlankText(rawHtml)) =>
    /\ converted.html = <<>>
    /\ converted.keepHtml = <<>>
    /\ converted.plainText = <<>>
    /\ "diagnostics" \in DOMAIN converted
    /\ converted.diagnostics = <<>>

VisitedKids(node) ==
  IF IsTextNode(node) \/ node.tag \in {"SCRIPT", "STYLE", "#comment"} THEN <<>>
  ELSE IF node.tag \in {"OL", "UL"} THEN SelectSeq(node.kids, LAMBDA kid : kid.tag = "LI")
  ELSE node.kids

\* the nodes the serializer goes through under nodes, in document order
RECURSIVE Visited(_)
Visited(nodes) ==
  Flatten([i \in 1..Len(nodes) |-> <<nodes[i]>> \o Visited(VisitedKids(nodes[i]))])

\* the element has text that is not white space among the nodes visited in it
HasText(node) ==
  LET v == Visited(<<node>>)
  IN \E i \in 1..Len(v) :
       IsTextNode(v[i]) /\ \E j \in 1..Len(v[i].text) : v[i].text[j] \notin WhiteSpace

\* how many tokens of s are tok
Count(s, tok) == Cardinality({i \in 1..Len(s) : s[i] = tok})

\* how many visited elements of the parsed input with a tag of tags there
\* are: all of them, or those with text
HeadingsOf(tags) == SelectSeq(Visited(body), LAMBDA n : n.tag \in tags)
HeadingsWithText(tags) == SelectSeq(HeadingsOf(tags), HasText)

\* C3: every level-1 heading with content comes out as <h1>...</h1>, every
\* heading of level 2 to 6 with content as <h2>...</h2> (a heading without
\* text may be dropped with its empty paragraph), and html holds no other
\* heading tag
C3_HeadingLevels ==
  Returned =>
    /\ \A i \in 1..Len(converted.html) :
         IsTag(converted.html[i]) => converted.html[i].v \notin {"h3", "h4", "h5", "h6"}
    /\ Count(converted.html, Open("h1")) >= Len(HeadingsWithText({"H1"}))
    /\ Count(converted.html, Open("h1")) <= Len(HeadingsOf({"H1"}))
    /\ Count(converted.html, Close("h1")) = Count(converted.html, Open("h1"))
    /\ Count(converted.html, Open("h2")) >= Len(HeadingsWithText(HeadingTags \ {"H1"}))
    /\ Count(converted.html, Open("h2")) <= Len(HeadingsOf(HeadingTags \ {"H1"}))
    /\ Count(converted.html, Close("h2")) = Count(converted.html, Open("h2"))

\* a level-1 heading and a heading of level 3 or more, both with text, have
\* been converted
C3_Witness ==
  /\ Returned
  /\ Len(HeadingsWithText({"H1"})) >= 1
  /\ Len(HeadingsWithText({"H3", "H4", "H5", "H6"})) >= 1
  /\ Count(converted.html, Open("h1")) >= 1
  /\ Count(converted.html, Open("h2")) >= 1

\* a list whose children are items, each item holding text and lists of the
\* same kind only
RECURSIVE IsPlainList(_)
IsPlainList(node) ==
  /\ node.tag \in {"OL", "UL"}
  /\ \A k \in 1..Len(node.kids) :
       /\ node.kids[k].tag = "LI"
       /\ \A j \in 1..Len(node.kids[k].kids) :
            IsTextNode(node.kids[k].kids[j]) \/ IsPlainList(node.kids[k].kids[j])

\* the call has returned and its input was one such list
ListDocument ==
  /\ Returned
  /\ Len(body) = 1
  /\ body[1].tag = "DIV"
  /\ Len(body[1].kids) = 1
  /\ IsPlainList(body[1].kids[1])

\* the start offset of a list: its start attribute, 1 without one
StartOf(list) ==
  IF HasAttribute(list.attrs, "start") THEN parseInt(GetAttribute(list.attrs, "start")).val
  ELSE 1

\* the characters of the item's own text that are not white space
LabelOf(li) ==
  LET own == SelectSeq(li.kids, IsTextNode)
      chars == Flatten([j \in 1..Len(own) |-> own[j].text])
  IN SelectSeq(chars, LAMBDA c : c \notin WhiteSpace)

\* the items of a list and of the lists nested in its items, in document
\* pre-order, each with its depth, its number in its own list and its label
RECURSIVE ListItems(_, _)
ListItems(list, depth) ==
  Flatten([k \in 1..Len(list.kids) |->
     LET li == list.kids[k]
         nested == SelectSeq(li.kids, LAMBDA n : ~IsTextNode(n))
     IN <<[depth |-> depth, ordered |-> list.tag = "OL",
           number |-> StartOf(list) + k - 1, label |-> LabelOf(li)]>>
          \o Flatten([j \in 1..Len(nested) |-> ListItems(nested[j], depth + 1)])])

ExpectedItems == ListItems(body[1].kids[1], 0)

\* every ordered list of the document has a numeric start offset
RECURSIVE NumericStarts(_)
NumericStarts(list) ==
  /\ HasAttribute(list.attrs, "start") => ~parseInt(GetAttribute(list.attrs, "start")).nan
  /\ \A k \in 1..Len(list.kids) : \A j \in 1..Len(list.kids[k].kids) :
       IsTextNode(list.kids[k].kids[j]) \/ NumericStarts(list.kids[k].kids[j])

\* the contents of the paragraphs of s that hold no paragraph, in order
LinesOf(s) ==
  LET IsP(j) == s[j] \in {Open("p"), Close("p")}
      NextP(i) == Min({j \in (i + 1)..(Len(s) + 1) : j > Len(s) \/ IsP(j)})
      starts == SelectSeq([i \in 1..Len(s) |-> i],
                          LAMBDA i : s[i] = Open("p") /\ NextP(i) <= Len(s)
                                       /\ s[NextP(i)] = Close("p"))
  IN [n \in 1..Len(starts) |-> SubSeq(s, starts[n] + 1, NextP(starts[n]) - 1)]

\* how many elements equal to x the sequence s starts with
LeadingCount(s, x) == Min({j \in 1..(Len(s) + 1) : j > Len(s) \/ s[j] /= x}) - 1

\* the prefix of an item: its number or a dash, then a space
PrefixOf(item) ==
  IF item.ordered THEN Text(NumberChars(Num(item.number)) \o <<".", " ">>)
  ELSE Text(<<"-", " ">>)

\* the part of a line after its indentation
Unindented(line) == SubSeq(line, LeadingCount(line, Ent("nbsp")) + 1, Len(line))

\* s starts with prefix
StartsWith(s, prefix) == Len(s) >= Len(prefix) /\ SubSeq(s, 1, Len(prefix)) = prefix

\* C4: in an ordered list with start offset s the k-th item is emitted with the
\* prefix "(s+k-1). ", whatever the sublists nested in the items before it, and
\* a nested ordered list numbers its items from its own start offset
C4_OrderedNumbering ==
  (ListDocument /\ NumericStarts(body[1].kids[1])) =>
    LET lines == LinesOf(converted.html)
    IN /\ Len(lines) = Len(ExpectedItems)
       /\ \A n \in 1..Len(ExpectedItems) :
            ExpectedItems[n].ordered =>
              StartsWith(Unindented(lines[n]), PrefixOf(ExpectedItems[n]))

\* an ordered list's item follows, as number s+1, the sublist of the item
\* numbered s, a sublist that is ordered with a start offset of its own
C4_Witness ==
  /\ ListDocument
  /\ \E n, m, l \in 1..Len(ExpectedItems) :
       /\ n < m /\ m < l
       /\ ExpectedItems[n].ordered /\ ExpectedItems[n].depth = 0
       /\ ExpectedItems[m].ordered /\ ExpectedItems[m].depth = 1
       /\ ExpectedItems[m].number = 9
       /\ ExpectedItems[l].ordered /\ ExpectedItems[l].depth = 0
       /\ ExpectedItems[l].number = ExpectedItems[n].number + 1
       /\ StartsWith(LinesOf(converted.html)[l], PrefixOf(ExpectedItems[l]))

\* the lines of a text: the runs of characters between its line feeds
SplitLines(chars) ==
  LET feeds == SelectSeq([i \in 1..Len(chars) |-> i], LAMBDA i : chars[i] = "\n")
      breaks == <<0>> \o feeds \o <<Len(chars) + 1>>
  IN [n \in 1..(Len(breaks) - 1) |-> SubSeq(chars, breaks[n] + 1, breaks[n + 1] - 1)]

\* C5: every item of a list nested d levels deep is emitted in html as a
\* paragraph that starts with exactly 4*d &nbsp; entities followed by the
\* item's number or "- " prefix, and the plainText line of the item starts
\* with exactly 4*d spaces
C5_Indentation ==
  (ListDocument /\ NumericStarts(body[1].kids[1])) =>
    LET lines == LinesOf(converted.html)
        plain == SplitLines(converted.plainText)
    IN /\ Len(lines) = Len(ExpectedItems)
       /\ Len(plain) = Len(ExpectedItems)
       /\ \A n \in 1..Len(ExpectedItems) :
            /\ LeadingCount(lines[n], Ent("nbsp")) = 4 * ExpectedItems[n].depth
            /\ StartsWith(SubSeq(lines[n], 4 * ExpectedItems[n].depth + 1, Len(lines[n])),
                          PrefixOf(ExpectedItems[n]))
            /\ LeadingCount(plain[n], " ") = 4 * ExpectedItems[n].depth

\* a list document with an item two levels deep, whose paragraph starts with
\* eight entities and whose line starts with eight spaces, and an item of the
\* top-level list
C5_Witness ==
  /\ ListDocument
  /\ \E n, m \in 1..Len(ExpectedItems) :
       /\ ExpectedItems[n].depth = 0
       /\ ExpectedItems[m].depth = 2
       /\ LeadingCount(LinesOf(converted.html)[m], Ent("nbsp")) = 8
       /\ LeadingCount(SplitLines(converted.plainText)[m], " ") = 8

\* the label of a paragraph: the characters after its prefix that are not
\* white space
LineLabel(line) ==
  LET sp == Min({j \in 1..(Len(line) + 1) : j > Len(line) \/ line[j] = Chr(" ")})
      kept == SelectSeq(SubSeq(line, sp + 1, Len(line)),
                        LAMBDA t : t.k = "chr" /\ t.v \notin WhiteSpace)
  IN [j \in 1..Len(kept) |-> kept[j].v]

\* C6: the item paragraphs are emitted in document pre-order: the paragraphs
\* of the sublists nested in an item come right after the item's own paragraph
\* and before the paragraph of the item's next sibling, at every depth
C6_PreOrder ==
  ListDocument =>
    LET lines == LinesOf(converted.html)
    IN /\ Len(lines) = Len(ExpectedItems)
       /\ \A n \in 1..Len(ExpectedItems) :
            LineLabel(lines[n]) = ExpectedItems[n].label

\* an item, the item of its sublist and the item's next sibling, each with a
\* label of its own, and a document with an item two levels deep
C6_Witness ==
  /\ ListDocument
  /\ \E n \in 1..(Len(ExpectedItems) - 2) :
       /\ ExpectedItems[n].depth = ExpectedItems[n + 2].depth
       /\ ExpectedItems[n + 1].depth = ExpectedItems[n].depth + 1
       /\ ExpectedItems[n].label /= <<>>
       /\ ExpectedItems[n + 1].label /= <<>>
       /\ ExpectedItems[n + 2].label /= <<>>
       /\ Cardinality({ExpectedItems[n + j].label : j \in 0..2}) = 3
       /\ LineLabel(LinesOf(converted.html)[n + 1]) = ExpectedItems[n + 1].label

\* all the nodes under nodes, in document order
RECURSIVE Descendants(_)
Descendants(nodes) ==
  Flatten([i \in 1..Len(nodes) |-> <<nodes[i]>> \o Descendants(nodes[i].kids)])

\* the nodes under nodes that are not inside a script or style element
RECURSIVE Outside(_)
Outside(nodes) ==
  Flatten([i \in 1..Len(nodes) |->
     <<nodes[i]>> \o (IF nodes[i].tag \in {"SCRIPT", "STYLE"} THEN <<>>
                      ELSE Outside(nodes[i].kids))])

\* the characters, white space apart, of the text nodes among nodes
CharsOf(nodes) ==
  UNION {{nodes[i].text[j] : j \in 1..Len(nodes[i].text)} : i \in 1..Len(nodes)} \ WhiteSpace

\* the script and style elements of the parsed input
RemovedElements == SelectSeq(Descendants(body), LAMBDA n : n.tag \in {"SCRIPT", "STYLE"})

\* the characters the input has inside script and style elements only
RemovedChars ==
  UNION {CharsOf(Descendants(RemovedElements[i].kids)) : i \in 1..Len(RemovedElements)}
    \ CharsOf(Outside(body))

\* C7: text inside a script or style element appears in none of html, keepHtml
\* and plainText, and the serializer returns the empty fragment for such an
\* element
C7_ScriptAndStyleRemoved ==
  Returned =>
    /\ \A c \in RemovedChars :
         /\ \A i \in 1..Len(converted.html) : converted.html[i] /= Chr(c)
         /\ \A i \in 1..Len(converted.keepHtml) : converted.keepHtml[i] /= Chr(c)
         /\ \A i \in 1..Len(converted.plainText) : converted.plainText[i] /= c
    /\ \A i \in 1..Len(RemovedElements) : \A inlineContext \in BOOLEAN :
         serializeNode(RemovedElements[i], inlineContext, 0) = <<>>

\* an input with text inside a style element, text inside a script element
\* or text outside both, and a result that is not empty
C7_Witness ==
  /\ Returned
  /\ RemovedChars /= {}
  /\ \E i \in 1..Len(RemovedElements) : RemovedElements[i].tag = "STYLE"
  /\ converted.html /= <<>>
  /\ converted.plainText /= <<>>

\* the tags of the output grammar
OutputTags ==
  {Open(t) : t \in {"p", "h1", "h2", "b", "i", "u"}}
    \cup {Close(t) : t \in {"p", "h1", "h2", "b", "i", "u"}}
    \cup {SelfClose("br")}

\* C8: html holds no tag other than <p>, <h1>, <h2>, <b>, <i>, <u>, opening
\* and closing, and <br />, and no '<' or '>' that is not escaped
C8_OutputGrammar ==
  Returned =>
    \A i \in 1..Len(converted.html) :
      \/ converted.html[i] \in OutputTags
      \/ converted.html[i].k = "ent"
      \/ converted.html[i].k = "chr" /\ converted.html[i].v \notin {"<", ">"}

\* an input with an element outside the output grammar and with '<' and '>' in
\* its text, which html holds as entities
C8_Witness ==
  /\ Returned
  /\ \E i \in 1..Len(Descendants(body)) :
       Descendants(body)[i].tag \in {"FIGURE", "IMG", "SPAN"}
  /\ {"<", ">"} \subseteq CharsOf(Descendants(body))
  /\ \E i, j \in 1..Len(converted.html) :
       converted.html[i] = Ent("lt") /\ converted.html[j] = Ent("gt")

\* C9: converting the html of a result again gives the same html
C9_RoundTrip == (Returned /\ calls = 2) => converted.html = previous.html

\* C10: the cleaner applied to its own output, for a fragment the serializer
\* produced, gives that output again
C10_CleanupIdempotent == pc = "recleaned" => recleaned = converted.html

\* the cleaner was applied a second time to the output of a first pass that
\* had removed white space from the serializer's fragment
C10_Witness ==
  /\ pc = "recleaned"
  /\ Len(converted.html) < Len(serialized)
  /\ converted.html /= <<>>

\* the text has n line feeds in a row somewhere
HasLineFeeds(chars, n) ==
  \E k \in 1..(Len(chars) - n + 1) : \A m \in k..(k + n - 1) : chars[m] = "\n"

\* the line is empty or white space only
IsBlankLine(line) == \A j \in 1..Len(line) : line[j] \in WhiteSpace

BlockTagNames == {"p", "h1", "h2"}

IsBlockTag(tok) == tok.k \in {"open", "close"} /\ tok.v \in BlockTagNames

\* the positions of the opening tags of the blocks of s that hold no block,
\* in order, and the position of the closing tag of the block opened at i
BlockEnd(s, i) == Min({j \in (i + 1)..(Len(s) + 1) : j > Len(s) \/ IsBlockTag(s[j])})

BlockStarts(s) ==
  SelectSeq([i \in 1..Len(s) |-> i],
            LAMBDA i : /\ s[i].k = "open" /\ s[i].v \in BlockTagNames
                       /\ BlockEnd(s, i) <= Len(s)
                       /\ s[BlockEnd(s, i)] = Close(s[i].v))

\* every token of s that is not the tag of a block lies in one of those blocks
AllInBlocks(s) ==
  \A k \in 1..Len(s) :
    IsBlockTag(s[k]) \/ \E n \in 1..Len(BlockStarts(s)) :
                          BlockStarts(s)[n] < k /\ k < BlockEnd(s, BlockStarts(s)[n])

\* the text of the content of a block: a line feed for a break, nothing for
\* another tag, the character of an entity with a space for &nbsp;
BlockText(content) ==
  Flatten([k \in 1..Len(content) |->
     CASE content[k].k = "chr" -> <<content[k].v>>
       [] content[k].k = "ent" ->
            <<IF content[k].v = "nbsp" THEN " " ELSE EntityChar(content[k].v)>>
       [] IsBr(content[k]) -> <<"\n">>
       [] OTHER -> <<>>])

\* the texts of the blocks of s joined by one line feed, by two before a
\* heading that comes right after the closing tag of a paragraph
RECURSIVE JoinBlocks(_, _)
JoinBlocks(s, n) ==
  LET starts == BlockStarts(s)
      i == starts[n]
      text == BlockText(SubSeq(s, i + 1, BlockEnd(s, i) - 1))
      afterParagraph == s[i].v \in {"h1", "h2"} /\ i > 1 /\ s[i - 1] = Close("p")
  IN IF n = 0 THEN <<>>
     ELSE IF n = 1 THEN text
     ELSE JoinBlocks(s, n - 1) \o (IF afterParagraph THEN <<"\n", "\n">> ELSE <<"\n">>)
            \o text

\* the text without its white space other than line feeds
Squeeze(chars) == SelectSeq(chars, LAMBDA c : c \notin (WhiteSpace \ {"\n"}))

\* C12: plainText is the text of the blocks of html in document order, one
\* line for each block and one line break for each <br />, the inline tags
\* adding no character: one line feed between two blocks, and one blank line
\* before a heading that comes right after a paragraph (the text compared
\* without its spaces, its blank-line runs collapsed and its ends trimmed)
C12_PlainTextOfBlocks ==
  (Returned /\ AllInBlocks(converted.html)) =>
    Squeeze(converted.plainText)
      = TrimChars(CollapseBlankLines(
          Squeeze(JoinBlocks(converted.html, Len(BlockStarts(converted.html))))))

\* the position of the closing tag of the element opened at position i of a
\* serialized tree (a void element has no closing tag)
MatchingClose(s, i) ==
  LET Opens(j) == Cardinality({m \in i..j : s[m].k = "open" /\ UpperOf[s[m].v] \notin VoidTags})
      Closes(j) == Cardinality({m \in i..j : s[m].k = "close"})
  IN Min({j \in (i + 1)..(Len(s) + 1) : j > Len(s) \/ Opens(j) = Closes(j)})

\* the positions of the opening tags of the p, h1 and h2 elements of s
BlockOpens(s) == {i \in 1..Len(s) : s[i].k = "open" /\ s[i].v \in BlockTagNames}

\* the style of the span of a block
SpanStyleOf(tag) ==
  IF tag = "h1" THEN KEEP_H1_TEXT ELSE IF tag = "h2" THEN KEEP_H2_TEXT ELSE KEEP_TEXT_BASE

\* s with the attributes of its blocks and the span around the content of
\* each block taken away
Undecorated(s) ==
  LET spans == {i + 1 : i \in BlockOpens(s)} \cup {MatchingClose(s, i) - 1 : i \in BlockOpens(s)}
      kept == KeepWhere(s, (1..Len(s)) \ spans)
  IN [k \in 1..Len(kept) |->
        IF kept[k].k = "open" /\ kept[k].v \in BlockTagNames THEN Open(kept[k].v)
        ELSE kept[k]]

\* C13: in keepHtml every p, h1 and h2 block carries dir="ltr" and the block
\* style and has one child only, a span with the style of the block's kind,
\* which holds the former children of the block in their order
C13_KeepBlocks ==
  (Returned /\ converted.html /= <<>>) =>
    LET s == converted.keepHtml
    IN /\ \A i \in BlockOpens(s) :
            /\ s[i].a = <<<<"dir", "ltr">>, <<"style", KEEP_BLOCK_STYLE>>>>
            /\ s[i + 1] = OpenA("span", <<<<"style", SpanStyleOf(s[i].v)>>>>)
            /\ MatchingClose(s, i) <= Len(s)
            /\ s[MatchingClose(s, i)] = Close(s[i].v)
            /\ MatchingClose(s, i + 1) = MatchingClose(s, i) - 1
       /\ Undecorated(s)
            = InnerHTML(ParseHtml(<<Open("div")>> \o converted.html \o <<Close("div")>>),
                        "BODY")

\* a result with a heading and a paragraph that holds text and a bold
\* element, each wrapped in the span of its kind
C13_Witness ==
  /\ Returned
  /\ \E i, j \in BlockOpens(converted.keepHtml) :
       /\ converted.keepHtml[i].v = "h1"
       /\ converted.keepHtml[i + 2].k = "chr"
       /\ converted.keepHtml[j].v = "p"
       /\ converted.keepHtml[j + 2].k = "chr"
       /\ \E m \in (j + 3)..(MatchingClose(converted.keepHtml, j) - 2) :
            converted.keepHtml[m] = Open("b")

\* the result has a list of diagnostics
HasDiagnostics == "diagnostics" \in DOMAIN converted

\* the diagnostics of the result that are of a kind of kinds, in order
DiagnosticsOfKind(kinds) == SelectSeq(converted.diagnostics, LAMBDA d : d.kind \in kinds)

\* the input has text, so that it is parsed and serialized
ParsedInput == Returned /\ TextOnly(NormalizeInput(rawHtml)) /= <<>>

\* C14: each heading of level 3 to 6 records one diagnostic
\* {kind: "downgraded-heading", from: "h<level>", to: "h2"} in the result's
\* diagnostics, and the headings of level 1 and 2 record none
C14_DowngradedHeadings ==
  (ParsedInput /\ HeadingsOf({"H3", "H4", "H5", "H6"}) /= <<>>) =>
    /\ HasDiagnostics
    /\ LET deep == HeadingsOf({"H3", "H4", "H5", "H6"})
       IN DiagnosticsOfKind({"downgraded-heading"})
            = [n \in 1..Len(deep) |->
                 [kind |-> "downgraded-heading", from |-> LowerOf(deep[n].tag), to |-> "h2"]]

\* C15: each item of a sublist at depth d >= 1 records one diagnostic
\* {kind: "list-flattened", depth: d}, and the items of a top-level list
\* record none
C15_ListFlattened ==
  (ListDocument /\ \E n \in 1..Len(ExpectedItems) : ExpectedItems[n].depth >= 1) =>
    /\ HasDiagnostics
    /\ LET nested == SelectSeq(ExpectedItems, LAMBDA item : item.depth >= 1)
       IN DiagnosticsOfKind({"list-flattened"})
            = [n \in 1..Len(nested) |-> [kind |-> "list-flattened", depth |-> nested[n].depth]]

\* the elements the serializer visits that have no place in the output
\* grammar: not text, inline formatting, heading, break, list, list item,
\* known container, script or style
UnsupportedElements ==
  SelectSeq(Visited(body),
            LAMBDA n : n.tag \notin (FormattingTags \cup HeadingTags \cup blockTags
                                      \cup RawTextTags \cup {"LI", "#text", "#comment"}))

\* the script and style elements the serializer visits
VisitedRemoved == SelectSeq(Visited(body), LAMBDA n : n.tag \in RawTextTags)

\* C16: for an input with text, each script or style element records one
\* diagnostic {kind: "removed-element", tag}, and each element without a
\* mapping to the output grammar one diagnostic of kind "unsupported-tag"
\* with its tag
C16_DropsReported ==
  (ParsedInput /\ VisitedRemoved \o UnsupportedElements /= <<>>) =>
    /\ HasDiagnostics
    /\ DiagnosticsOfKind({"removed-element"})
         = [n \in 1..Len(VisitedRemoved) |->
              [kind |-> "removed-element", tag |-> LowerOf(VisitedRemoved[n].tag)]]
    /\ LET unsupported == DiagnosticsOfKind({"unsupported-tag"})
       IN /\ Len(unsupported) = Len(UnsupportedElements)
          /\ \A n \in 1..Len(unsupported) :
               unsupported[n].tag = LowerOf(UnsupportedElements[n].tag)

\* the tag a diagnostic names
DiagnosticTag(d) == IF d.kind = "downgraded-heading" THEN d.from ELSE d.tag

\* C17: the diagnostics are in the document pre-order of the elements that
\* record them: a parent's diagnostic before its children's
C17_DiagnosticsInPreOrder ==
  (ParsedInput /\ Len(UnsupportedElements) >= 2) =>
    /\ HasDiagnostics
    /\ LET recording == SelectSeq(Visited(body),
                                  LAMBDA n : \/ n.tag \in {"H3", "H4", "H5", "H6"}
                                             \/ n.tag \in RawTextTags
                                             \/ \E m \in 1..Len(UnsupportedElements) :
                                                  UnsupportedElements[m] = n)
           tagged == DiagnosticsOfKind({"downgraded-heading", "removed-element",
                                        "unsupported-tag"})
       IN [n \in 1..Len(tagged) |-> DiagnosticTag(tagged[n])]
            = [n \in 1..Len(recording) |-> LowerOf(recording[n].tag)]

\* the clipboard calls made by the handler of the k-th click
CallsOf(k) == SelectSeq(clipboard, LAMBDA call : call.click = k)

\* the presses of the rich-copy button while there was output to copy
RichClicks ==
  {k \in 1..Len(clicks) : clicks[k].button = "rich" /\ clicks[k].converted.html /= <<>>}

StartsWithNumber(line) ==
  LET digits == Min({j \in 1..(Len(line) + 1) :
                       j > Len(line) \/ line[j].k /= "chr" \/ ~IsDigit(line[j].v)}) - 1
  IN /\ digits >= 1
     /\ Len(line) >= digits + 2
     /\ line[digits + 1] = Chr(".")
     /\ line[digits + 2] = Chr(" ")

\* C19: every ordered-list item paragraph starts, after its indentation, with
\* one or more ASCII digits and a literal ". ", whatever the list's start
\* attribute is (missing, empty, not a number, negative); every unordered-list
\* item paragraph starts with a literal "- "
C19_ItemPrefixes ==
  ListDocument =>
    LET lines == LinesOf(converted.html)
    IN /\ Len(lines) = Len(ListItems(body[1].kids[1], 0))
       /\ \A n \in 1..Len(lines) :
            IF ListItems(body[1].kids[1], 0)[n].ordered
            THEN StartsWithNumber(Unindented(lines[n]))
            ELSE StartsWith(Unindented(lines[n]), Text(<<"-", " ">>))

\* the text nodes the serializer goes through in the parsed input
VisitedTextNodes == SelectSeq(Visited(body), IsTextNode)

\* the characters with every run of white space made one space
RECURSIVE RunsToSpace(_)
RunsToSpace(chars) ==
  IF chars = <<>> THEN <<>>
  ELSE IF Head(chars) \in WhiteSpace
  THEN LET rest == RunsToSpace(Tail(chars))
       IN IF rest /= <<>> /\ Head(rest) = " " /\ Head(Tail(chars)) \in WhiteSpace
          THEN rest ELSE <<" ">> \o rest
  ELSE <<Head(chars)>> \o RunsToSpace(Tail(chars))

\* the characters a browser reads from serialized text
Unescaped(text) ==
  [i \in 1..Len(text) |-> IF text[i].k = "ent" THEN EntityChar(text[i].v) ELSE text[i].v]

\* C20: for every text node the serializer replaces each run of white space,
\* non-breaking spaces included, by a single space and then escapes & < > "
\* as &amp; &lt; &gt; &quot; exactly once: the serialized text has none of the
\* raw characters < > " and no two adjacent white-space characters
C20_TextNodes ==
  Returned =>
    \A n \in 1..Len(VisitedTextNodes) :
      LET text == serializeNode(VisitedTextNodes[n], FALSE, 0)
      IN /\ \A i \in 1..Len(text) :
              /\ text[i].k \in {"chr", "ent"}
              /\ text[i].k = "chr" => text[i].v \notin {"<", ">", "\"", "&", NBSP}
              /\ text[i].k = "ent" => text[i].v \in {"amp", "lt", "gt", "quot"}
         /\ \A i \in 1..(Len(text) - 1) : ~(IsSpace(text[i]) /\ IsSpace(text[i + 1]))
         /\ Unescaped(text) = RunsToSpace(VisitedTextNodes[n].text)

\* a text node with a run of white space that has a non-breaking space in it
\* and with each of the four characters was serialized, and its serialized
\* text is in the fragments
C20_Witness ==
  /\ Returned
  /\ \E n \in 1..Len(VisitedTextNodes) :
       LET chars == VisitedTextNodes[n].text
           text == serializeNode(VisitedTextNodes[n], FALSE, 0)
       IN /\ \E i \in 1..(Len(chars) - 1) : chars[i] \in WhiteSpace /\ chars[i + 1] = NBSP
          /\ {"&", "<", ">", "\""} \subseteq {chars[i] : i \in 1..Len(chars)}
          /\ Len(text) < Len(chars)
          /\ \E i \in 1..Len(serialized) :
               /\ i + Len(text) - 1 <= Len(serialized)
               /\ SubSeq(serialized, i, i + Len(text) - 1) = text

\* the source tags that stand for the inline tag t
SourceTagsOf(t) ==
  CASE t = "b" -> {"B", "STRONG"} [] t = "i" -> {"I", "EM"} [] t = "u" -> {"U"}

\* the visited elements of the parsed input that stand for the inline tag t
InlineElements(t) == SelectSeq(Visited(body), LAMBDA n : n.tag \in SourceTagsOf(t))

\* those of them whose children serialize to something
InlineElementsWithContent(t) ==
  SelectSeq(InlineElements(t), LAMBDA n : serializeChildren(n, TRUE, 0) /= <<>>)

\* C21: b and strong come out as <b>, i and em as <i>, u as <u>, an inline
\* element whose serialized children are empty emits nothing, and html holds
\* no empty pair <b></b>, <i></i> or <u></u>
C21_InlineTags ==
  Returned =>
    /\ \A i \in 1..Len(converted.html) :
         IsTag(converted.html[i]) => converted.html[i].v \notin {"strong", "em"}
    /\ \A t \in {"b", "i", "u"} :
         /\ \A i \in 1..(Len(converted.html) - 1) :
              ~(converted.html[i] = Open(t) /\ converted.html[i + 1] = Close(t))
         /\ Count(converted.html, Open(t)) <= Len(InlineElementsWithContent(t))
         /\ Count(converted.html, Open(t)) >= Len(SelectSeq(InlineElements(t), HasText))
         /\ Count(converted.html, Close(t)) = Count(converted.html, Open(t))

\* a strong element with text came out as <b> while an inline element without
\* children came out as nothing
C21_Witness ==
  /\ Returned
  /\ \E n \in 1..Len(InlineElements("b")) :
       InlineElements("b")[n].tag = "STRONG" /\ HasText(InlineElements("b")[n])
  /\ Count(converted.html, Open("b")) >= 1
  /\ \E t \in {"b", "i", "u"} : Len(InlineElementsWithContent(t)) < Len(InlineElements(t))

\* the elements serializeNode is called on with inlineContext true, among the
\* nodes and under them, each with the depth of the call: nodes are serialized
\* with the given context; the children of an inline element, of a heading and
\* of a list item are serialized in inline context, those of a block container
\* in block context take its context, the lists nested in an item are given
\* to convertList one level deeper
RECURSIVE InlineCalls(_, _, _)
InlineCalls(nodes, inlineContext, depth) ==
  Flatten([i \in 1..Len(nodes) |->
    LET node == nodes[i]
        self == IF inlineContext THEN <<[node |-> node, depth |-> depth]>> ELSE <<>>
    IN IF IsTextNode(node) \/ node.tag \in {"#comment", "SCRIPT", "STYLE"} THEN <<>>
       ELSE IF node.tag \in {"B", "STRONG", "I", "EM", "U"} \cup HeadingTags
       THEN self \o InlineCalls(node.kids, TRUE, depth)
       ELSE IF node.tag \in {"OL", "UL"}
       THEN LET items == SelectSeq(node.kids, LAMBDA kid : kid.tag = "LI")
            IN self \o Flatten([k \in 1..Len(items) |->
                 InlineCalls(SelectSeq(items[k].kids, LAMBDA kid : kid.tag \notin {"OL", "UL"}),
                             TRUE, depth)
                   \o InlineCalls(SelectSeq(items[k].kids, LAMBDA kid : kid.tag \in {"OL", "UL"}),
                                  FALSE, depth + 1)])
       ELSE self \o InlineCalls(node.kids, inlineContext, depth)])

\* p, div, section, article, header, footer and the elements outside the
\* supported tag sets
IsContainerOrUnknown(node) ==
  /\ ~IsTextNode(node)
  /\ node.tag \notin {"#comment", "SCRIPT", "STYLE", "B", "STRONG", "I", "EM", "U", "BR", "OL", "UL"}
       \cup HeadingTags

\* the containers and unknown elements of the parsed input that are serialized
\* in inline context
InlineContainers ==
  SelectSeq(InlineCalls(body, FALSE, 0), LAMBDA call : IsContainerOrUnknown(call.node))

\* there is a list among the nodes or under them
HasList(nodes) == \E i \in 1..Len(Descendants(nodes)) : Descendants(nodes)[i].tag \in {"OL", "UL"}

\* C22: a block container or unknown element serialized in inline context is
\* transparent: it contributes its children's serialization only and never a
\* <p> wrapper, at any nesting depth
C22_TransparentInInlineContext ==
  Returned =>
    \A n \in 1..Len(InlineContainers) :
      LET call == InlineContainers[n]
          out == serializeNode(call.node, TRUE, call.depth)
      IN /\ out = Flatten([k \in 1..Len(call.node.kids) |->
                             serializeNode(call.node.kids[k], TRUE, call.depth)])
         /\ ~HasList(call.node.kids) => Count(out, Open("p")) = 0
         /\ (HasText(call.node) /\ ~HasList(body)) =>
              \E i \in 1..Len(serialized) :
                /\ i + Len(out) - 1 <= Len(serialized)
                /\ SubSeq(serialized, i, i + Len(out) - 1) = out
                /\ i > 1 /\ serialized[i - 1] /= Open("p")

\* a div with text inside a b element and a span inside a heading have been
\* serialized, and the text of the div is in html right after the <b>
C22_Witness ==
  /\ Returned
  /\ \E n, m \in 1..Len(InlineContainers) :
       /\ InlineContainers[n].node.tag = "DIV"
       /\ HasText(InlineContainers[n].node)
       /\ InlineContainers[m].node.tag = "SPAN"
  /\ \E i \in 1..(Len(converted.html) - 1) :
       converted.html[i] = Open("b") /\ converted.html[i + 1] = Chr("a")

\* nothing is left of the content once its tags, its &nbsp; and its white
\* space are removed
IsEmptyContent(content) ==
  \A k \in 1..Len(content) :
    IsTag(content[k]) \/ IsSpace(content[k]) \/ content[k] = Ent("nbsp")

\* the position of the first </p> after position i of s
NextCloseP(s, i) == Min({j \in (i + 1)..(Len(s) + 1) : j > Len(s) \/ s[j] = Close("p")})

\* the visited elements that can give a paragraph: the containers and unknown
\* elements that hold text or a list, and the items of the lists
ParagraphSources ==
  SelectSeq(Visited(body),
            LAMBDA n : \/ IsContainerOrUnknown(n) /\ n.tag /= "LI"
                          /\ (HasText(n) \/ HasList(<<n>>))
                       \/ n.tag = "LI")

\* C23: html holds no empty paragraph, that is no <p>...</p> whose content is
\* empty once tags, breaks, &nbsp; and white space are removed, and an element
\* whose only content is white space, non-breaking spaces or breaks gives no
\* paragraph
C23_NoEmptyParagraph ==
  Returned =>
    /\ \A i \in 1..Len(converted.html) :
         converted.html[i] = Open("p") =>
           /\ MatchingClose(converted.html, i) <= Len(converted.html)
           /\ ~IsEmptyContent(SubSeq(converted.html, i + 1,
                                     MatchingClose(converted.html, i) - 1))
           /\ ~IsEmptyContent(SubSeq(converted.html, i + 1,
                                     NextCloseP(converted.html, i) - 1))
    /\ Count(converted.html, Open("p")) <= Len(ParagraphSources)

\* the input holds a paragraph with text and an element with a non-breaking
\* space or white space only, and html holds the paragraph of the first and
\* fewer paragraphs than the input has containers
C23_Witness ==
  /\ Returned
  /\ Count(converted.html, Open("p")) >= 1
  /\ \E n \in 1..Len(Visited(body)) :
       /\ Visited(body)[n].tag \in {"P", "DIV", "H1"}
       /\ Visited(body)[n].kids /= <<>>
       /\ ~HasText(Visited(body)[n])
       /\ serializeChildren(Visited(body)[n], FALSE, 0) /= <<>>

\* the lists the serializer goes through in the parsed input
VisitedLists == SelectSeq(Visited(body), LAMBDA n : n.tag \in {"OL", "UL"})

\* the direct li children of a list
DirectItems(list) == SelectSeq(list.kids, LAMBDA kid : kid.tag = "LI")

\* the items of the list and of every list under it, one entry for each
ItemsUnder(list) ==
  LET lists == SelectSeq(Visited(<<list>>), LAMBDA n : n.tag \in {"OL", "UL"})
  IN Flatten([i \in 1..Len(lists) |-> DirectItems(lists[i])])

\* every list under the list is a direct child of an item of a list
RECURSIVE ListsAreDirect(_)
ListsAreDirect(list) ==
  \A k \in 1..Len(DirectItems(list)) :
    \A j \in 1..Len(DirectItems(list)[k].kids) :
      LET kid == DirectItems(list)[k].kids[j]
      IN IF kid.tag \in {"OL", "UL"} THEN ListsAreDirect(kid) ELSE ~HasList(<<kid>>)

\* the items of such a list in the order of their paragraphs
RECURSIVE ItemsInOrder(_)
ItemsInOrder(list) ==
  Flatten([k \in 1..Len(DirectItems(list)) |->
     LET nested == SelectSeq(DirectItems(list)[k].kids, LAMBDA kid : kid.tag \in {"OL", "UL"})
     IN <<DirectItems(list)[k]>> \o Flatten([j \in 1..Len(nested) |-> ItemsInOrder(nested[j])])])

\* the inline content of the item serializes to nothing but white space
IsEmptyItem(li) ==
  LET rest == SelectSeq(li.kids, LAMBDA kid : kid.tag \notin {"OL", "UL"})
  IN Trim(Flatten([j \in 1..Len(rest) |-> serializeNode(rest[j], TRUE, 0)])) = <<>>

\* the list without its children that are not items
ItemsOnly(list) == [list EXCEPT !.kids = DirectItems(list)]

\* C24: the list flattener emits exactly one paragraph for each li item and
\* nothing else: the children of a list that are not li are ignored, a list
\* without a direct li child gives an empty fragment, and an li whose inline
\* content serializes to empty still gives its paragraph, the prefix followed
\* by a single &nbsp;, which is in html after the cleaner
C24_OneParagraphPerItem ==
  Returned =>
    /\ \A n \in 1..Len(VisitedLists) :
         LET list == VisitedLists[n]
             out == convertList(list, list.tag = "OL", 0)
         IN /\ Count(out, Open("p")) = Len(ItemsUnder(list))
            /\ Count(out, Close("p")) = Len(ItemsUnder(list))
            /\ out /= <<>> => Head(out) = Open("p") /\ out[Len(out)] = Close("p")
            /\ DirectItems(list) = <<>> => out = <<>>
            /\ out = convertList(ItemsOnly(list), list.tag = "OL", 0)
            /\ ListsAreDirect(list) =>
                 /\ Len(LinesOf(out)) = Len(ItemsInOrder(list))
                 /\ \A k \in 1..Len(ItemsInOrder(list)) :
                      IsEmptyItem(ItemsInOrder(list)[k]) =>
                        LET line == Unindented(LinesOf(out)[k])
                        IN /\ Len(line) >= 3
                           /\ line[Len(line)] = Ent("nbsp")
                           /\ line[Len(line) - 1] = Chr(" ")
                           /\ Count(line, Ent("nbsp")) = 1
    /\ (Len(body) = 1 /\ Len(body[1].kids) = 1 /\ body[1].kids[1].tag \in {"OL", "UL"}
        /\ ListsAreDirect(body[1].kids[1])) =>
         LET list == body[1].kids[1]
             out == convertList(list, list.tag = "OL", 0)
         IN /\ Len(LinesOf(converted.html)) = Len(ItemsInOrder(list))
            /\ \A k \in 1..Len(ItemsInOrder(list)) :
                 IsEmptyItem(ItemsInOrder(list)[k]) =>
                   LinesOf(converted.html)[k] = LinesOf(out)[k]

\* a list with an item whose content is a non-breaking space only and with a
\* child that is not an item has been flattened: html holds the item's
\* paragraph "- &nbsp;" and nothing of the other child
C24_Witness ==
  /\ Returned
  /\ Len(body) = 1 /\ Len(body[1].kids) = 1 /\ body[1].kids[1].tag = "UL"
  /\ Len(DirectItems(body[1].kids[1])) = 1
  /\ Len(body[1].kids[1].kids) = 2
  /\ IsEmptyItem(DirectItems(body[1].kids[1])[1])
  /\ LinesOf(converted.html) = <<Text(<<"-", " ">>) \o <<Ent("nbsp")>>>>
  /\ Count(converted.html, Chr("z")) = 0

\* the tags the claim names: the closing tags of h1, h2, p, b, i and u, and br
IsTrimmedTag(tok) ==
  \/ tok.k = "close" /\ tok.v \in {"h1", "h2", "p", "b", "i", "u"}
  \/ IsBr(tok)

\* C25: after the cleaner no white-space character stands right before a
\* closing tag of h1, h2, p, b, i or u, or before a br tag
C25_NoSpaceBeforeClosingTags ==
  Returned =>
    \A i \in 1..(Len(converted.html) - 1) :
      ~(IsSpace(converted.html[i]) /\ IsTrimmedTag(converted.html[i + 1]))

\* the known block containers
ContainerTags == {"P", "DIV", "SECTION", "ARTICLE", "HEADER", "FOOTER"}

\* the visited elements of the parsed input outside the supported tag sets
UnknownElements ==
  SelectSeq(Visited(body), LAMBDA n : IsContainerOrUnknown(n) /\ n.tag \notin ContainerTags)

\* the element as a div with the same children
AsDiv(node) == [node EXCEPT !.tag = "DIV"]

\* the characters of the markup that are not white space, entities read back
MarkupText(s) ==
  {Unescaped(<<s[i]>>)[1] : i \in {j \in 1..Len(s) : ~IsTag(s[j])}} \ WhiteSpace

\* C26: of an element outside the supported tag sets (script and style apart)
\* only the tag is discarded: the serialization of its children is kept in
\* html, bare in inline context and wrapped in <p>...</p>, unless effectively
\* empty, in block context, exactly as for a known block container
C26_UnknownElements ==
  Returned =>
    \A n \in 1..Len(UnknownElements) :
      LET node == UnknownElements[n]
          bare == serializeChildren(node, TRUE, 0)
          inner == serializeChildren(node, FALSE, 0)
      IN /\ serializeNode(node, TRUE, 0) = bare
         /\ serializeNode(node, FALSE, 0) =
              (IF IsEmptyContent(inner) THEN <<>>
               ELSE <<Open("p")>> \o Trim(inner) \o <<Close("p")>>)
         /\ serializeNode(node, TRUE, 0) = serializeNode(AsDiv(node), TRUE, 0)
         /\ serializeNode(node, FALSE, 0) = serializeNode(AsDiv(node), FALSE, 0)
         /\ CharsOf(Visited(<<node>>)) \subseteq MarkupText(converted.html)

\* a span with text was serialized in block context and came out as a
\* paragraph, and an unknown element was serialized in inline context
C26_Witness ==
  /\ Returned
  /\ \E n \in 1..Len(UnknownElements) :
       /\ UnknownElements[n].tag = "SPAN"
       /\ HasText(UnknownElements[n])
       /\ Head(serializeNode(UnknownElements[n], FALSE, 0)) = Open("p")
       /\ "a" \in MarkupText(converted.html)
  /\ \E m \in 1..Len(InlineContainers) :
       /\ InlineContainers[m].node.tag \notin ContainerTags
       /\ serializeNode(InlineContainers[m].node, TRUE, 0) /= <<>>

\* C27: the blocks of html form a flat sequence: no <p>, <h1> or <h2> opening
\* tag stands between a <p> opening tag and its matching </p>
C27_FlatBlocks ==
  Returned =>
    \A i \in 1..Len(converted.html) :
      converted.html[i] = Open("p") =>
        \A j \in (i + 1)..(MatchingClose(converted.html, i) - 1) :
          j <= Len(converted.html) =>
            ~(converted.html[j].k = "open" /\ converted.html[j].v \in BlockTagNames)

\* C28: html holds no empty heading: a source heading whose content is empty
\* or white space only emits nothing, so no <h1></h1>, no <h2></h2> and no
\* heading with white space only is in html after the cleaner
C28_NoEmptyHeading ==
  Returned =>
    \A i \in 1..Len(converted.html) :
      (converted.html[i] \in {Open("h1"), Open("h2")}) =>
        \E j \in (i + 1)..(MatchingClose(converted.html, i) - 1) :
          j <= Len(converted.html) /\ ~IsSpace(converted.html[j])

\* the time a state set to "copied" or "error" is to be held
HoldOf(state) == IF state = "copied" THEN 2000 ELSE 2500

\* C29: a button's state set to "copied" stays "copied" until 2000 ms after it
\* was set, and a state set to "error" stays until 2500 ms after: no reset
\* timer scheduled by an earlier copy of either button returns a state set
\* later to "idle" before that
C29_StatesHeld ==
  [][/\ (richCopyState /= "idle" /\ richCopyState' = "idle") =>
          now >= setAt.rich + HoldOf(richCopyState)
     /\ (plainCopyState /= "idle" /\ plainCopyState' = "idle") =>
          now >= setAt.plain + HoldOf(plainCopyState)]_vars

\* C30: whenever richCopyState or plainCopyState becomes "copied" or "error"
\* it returns to "idle" in the end, the scheduled timers firing, whatever the
\* copy clicks, clipboard successes and clipboard failures; and a copy action
\* invoked while the converted output is empty changes neither state
C30_StatesReturnToIdle ==
  /\ (richCopyState /= "idle") ~> (richCopyState = "idle")
  /\ (plainCopyState /= "idle") ~> (plainCopyState = "idle")
  /\ [][(clicks' /= clicks /\ converted.html = <<>>) =>
          (richCopyState' = richCopyState /\ plainCopyState' = plainCopyState)]_vars

\* a copy button was pressed while the output was empty, rich-copy was pressed
\* with output and its write settled, and richCopyState is back to idle with no
\* timeout left
C30_Witness ==
  /\ \E k \in 1..Len(clicks) : clicks[k].converted.html = <<>>
  /\ \E n \in 1..Len(clipboard) :
       /\ clipboard[n].button = "rich"
       /\ \A i \in 1..Len(promises) : promises[i] /= n
  /\ now >= 2000
  /\ timers = <<>>
  /\ richCopyState = "idle"

====
